---- MODULE Spec2Model ----
(***************************************************************************)
(* Verification model of simple_smsc: the SMS TPDU codec (protocol_lib)    *)
(* and the SIP transport framer / dispatcher (sip_transport_lib).          *)
(*                                                                         *)
(* Text is a sequence of Unicode code points, a byte string a sequence of  *)
(* numbers 0..255.  str.encode("utf-8") and bytes.decode("utf-8",          *)
(* errors="replace") are the operators Utf8Encode and Utf8Decode.          *)
(***************************************************************************)
EXTENDS Integers, Sequences, FiniteSets, TLC

VARIABLES
    \* pure codec functions: the argument, the encoded form, the decoded
    \* form, and how far the round trip has run
    input, wire, result, step,
    \* the transports: max_message_size, the connections with their read loops,
    \* the handler lists of SIPServer and SIPClient, the fields of the
    \* transports, and the application that drives them
    max_message_size, conns, handlers, transport, app

vars_fn == <<input, wire, result, step>>
vars_net == <<max_message_size, conns, handlers, transport, app>>
vars == <<vars_fn, vars_net>>

(***************************************************************************)
(* Sequences, text and bytes                                               *)
(***************************************************************************)

MinOf(S) == CHOOSE x \in S : \A y \in S : x <= y
MaxOf(S) == CHOOSE x \in S : \A y \in S : x >= y

\* s[i:] and s[:n] of Python, 1-based: the elements from index i on, the first n
From(s, i) == SubSeq(s, i, Len(s))
Take(s, n) == SubSeq(s, 1, n)

\* b[lo:hi] of Python for any integers lo, hi (a negative one counts from the end)
PySlice(b, lo, hi) ==
    LET norm(n) == IF n >= 0 THEN (IF n > Len(b) THEN Len(b) ELSE n)
                   ELSE (IF Len(b) + n < 0 THEN 0 ELSE Len(b) + n)
    IN  SubSeq(b, norm(lo) + 1, norm(hi))

StartsWith(s, p) == Len(s) >= Len(p) /\ Take(s, Len(p)) = p

\* 1-based index of the first occurrence of sub in s, 0 when there is none
Find(s, sub) ==
    LET at == {i \in 1..(Len(s) - Len(sub) + 1) : SubSeq(s, i, i + Len(sub) - 1) = sub}
    IN  IF at = {} THEN 0 ELSE MinOf(at)

Contains(s, sub) == Find(s, sub) # 0

RECURSIVE Split(_, _)
\* s.split(sep): every piece between occurrences of sep
Split(s, sep) ==
    LET i == Find(s, sep)
    IN  IF i = 0 THEN <<s>>
        ELSE <<Take(s, i - 1)>> \o Split(From(s, i + Len(sep)), sep)

RECURSIVE SplitN(_, _, _)
\* s.split(sep, n): at most n splits
SplitN(s, sep, n) ==
    LET i == Find(s, sep)
    IN  IF i = 0 \/ n = 0 THEN <<s>>
        ELSE <<Take(s, i - 1)>> \o SplitN(From(s, i + Len(sep)), sep, n - 1)

RECURSIVE Join(_, _)
\* sep.join(parts)
Join(parts, sep) ==
    IF parts = <<>> THEN <<>>
    ELSE IF Len(parts) = 1 THEN parts[1]
    ELSE parts[1] \o sep \o Join(Tail(parts), sep)

\* the printable ASCII characters, in code order from 32 (the grave accent, 96,
\* is spelled out)
Printable ==
    << " ", "!", "\"", "#", "$", "%", "&", "'", "(", ")", "*", "+", ",", "-", ".", "/",
       "0", "1", "2", "3", "4", "5", "6", "7", "8", "9", ":", ";", "<", "=", ">", "?",
       "@", "A", "B", "C", "D", "E", "F", "G", "H", "I", "J", "K", "L", "M", "N", "O",
       "P", "Q", "R", "S", "T", "U", "V", "W", "X", "Y", "Z", "[", "\\", "]", "^", "_",
       "grave", "a", "b", "c", "d", "e", "f", "g", "h", "i", "j", "k", "l", "m", "n", "o",
       "p", "q", "r", "s", "t", "u", "v", "w", "x", "y", "z", "{", "|", "}", "~" >>

\* code point of a printable ASCII character
Ord(c) == 31 + (CHOOSE i \in 1..Len(Printable) : Printable[i] = c)

\* the text of a tuple of characters: Txt(<<"O", "K">>) is "OK"
Txt(cs) == [i \in 1..Len(cs) |-> Ord(cs[i])]

\* str.isspace for the code points below U+0800
IsSpace(c) == c \in {9, 10, 11, 12, 13, 28, 29, 30, 31, 32, 133, 160}

IsDigit(c) == c \in 48..57

\* str.upper / str.lower on one code point (ASCII and Latin-1 letters)
UpperChar(c) ==
    IF c \in 97..122 \/ (c \in 224..254 /\ c # 247) THEN c - 32 ELSE c
LowerChar(c) ==
    IF c \in 65..90 \/ (c \in 192..222 /\ c # 215) THEN c + 32 ELSE c
Upper(s) == [i \in 1..Len(s) |-> UpperChar(s[i])]
Lower(s) == [i \in 1..Len(s) |-> LowerChar(s[i])]

RECURSIVE LStrip(_)
LStrip(s) == IF s # <<>> /\ IsSpace(s[1]) THEN LStrip(Tail(s)) ELSE s
RECURSIVE RStrip(_)
RStrip(s) == IF s # <<>> /\ IsSpace(s[Len(s)]) THEN RStrip(Take(s, Len(s) - 1)) ELSE s
\* str.strip()
Strip(s) == RStrip(LStrip(s))

RECURSIVE FormatInt(_)
\* str(n) for an integer n
FormatInt(n) ==
    IF n < 0 THEN <<45>> \o FormatInt(0 - n)
    ELSE IF n < 10 THEN <<48 + n>>
    ELSE FormatInt(n \div 10) \o <<48 + (n % 10)>>

RECURSIVE DigitsValue(_)
DigitsValue(ds) ==
    IF ds = <<>> THEN 0 ELSE 10 * DigitsValue(Take(ds, Len(ds) - 1)) + (ds[Len(ds)] - 48)

\* int(text): surrounding whitespace, an optional sign, decimal digits that single
\* underscores may separate; anything else is a ValueError (ok = FALSE)
ParseInt(text) ==
    LET t == Strip(text)
        signed == t # <<>> /\ t[1] \in {43, 45}
        body == IF signed THEN Tail(t) ELSE t
        wellFormed ==
            /\ body # <<>>
            /\ \A i \in 1..Len(body) : IsDigit(body[i]) \/ body[i] = 95
            /\ IsDigit(body[1]) /\ IsDigit(body[Len(body)])
            /\ \A i \in 1..(Len(body) - 1) : ~(body[i] = 95 /\ body[i + 1] = 95)
        value == DigitsValue(SelectSeq(body, IsDigit))
    IN  IF ~wellFormed THEN [ok |-> FALSE, value |-> 0]
        ELSE [ok |-> TRUE, value |-> IF signed /\ t[1] = 45 THEN 0 - value ELSE value]

\* str.encode("utf-8") of one code point below U+10000
Utf8Char(c) ==
    IF c < 128 THEN <<c>>
    ELSE IF c < 2048 THEN <<192 + (c \div 64), 128 + (c % 64)>>
    ELSE <<224 + (c \div 4096), 128 + ((c \div 64) % 64), 128 + (c % 64)>>

RECURSIVE FlattenRange(_, _, _)
\* parts[lo] \o ... \o parts[hi], by halves
FlattenRange(parts, lo, hi) ==
    IF lo > hi THEN <<>>
    ELSE IF lo = hi THEN parts[lo]
    ELSE LET mid == (lo + hi) \div 2
         IN  FlattenRange(parts, lo, mid) \o FlattenRange(parts, mid + 1, hi)

Flatten(parts) == FlattenRange(parts, 1, Len(parts))

Utf8Encode(text) == Flatten([i \in 1..Len(text) |-> Utf8Char(text[i])])

IsCont(b) == b \in 128..191

\* a three-byte lead and a second byte it accepts
Second3Ok(b1, b2) ==
    /\ b1 \in 224..239 /\ IsCont(b2)
    /\ (b1 = 224 => b2 >= 160) /\ (b1 = 237 => b2 <= 159)

\* bytes.decode("utf-8", errors="replace"): an ill-formed sequence becomes one
\* U+FFFD (65533) per maximal subpart.  Lead bytes F0..F4 (code points from
\* U+10000) are outside the texts modelled here and decode as ill-formed.
\* A byte is taken by the sequence before it exactly when it is a continuation
\* byte that follows a two-byte lead, or follows a three-byte lead as its
\* accepted second byte, or is the third byte after such a pair.
Utf8Decode(b) ==
    LET taken(i) ==
            /\ i >= 2 /\ IsCont(b[i])
            /\ \/ b[i - 1] \in 194..223
               \/ Second3Ok(b[i - 1], b[i])
               \/ i >= 3 /\ Second3Ok(b[i - 2], b[i - 1])
        at(i) ==
            IF taken(i) THEN <<>>
            ELSE IF b[i] < 128 THEN <<b[i]>>
            ELSE IF b[i] \in 194..223 /\ i + 1 <= Len(b) /\ IsCont(b[i + 1])
                 THEN <<(b[i] - 192) * 64 + (b[i + 1] - 128)>>
            ELSE IF i + 2 <= Len(b) /\ Second3Ok(b[i], b[i + 1]) /\ IsCont(b[i + 2])
                 THEN <<(b[i] - 224) * 4096 + (b[i + 1] - 128) * 64 + (b[i + 2] - 128)>>
            ELSE <<65533>>
    IN  Flatten([i \in 1..Len(b) |-> at(i)])

CRLF == <<13, 10>>

\* a function that may raise returns Ok(value) or the exception raised
Raise(error, why) == [ok |-> FALSE, error |-> error, why |-> why]
ValueError(why) == Raise("ValueError", why)
\* data[i] past the end of data
IndexError == Raise("IndexError", "index out of range")
Ok(v) == [ok |-> TRUE, value |-> v]

\* a str and a bytes value, which Python tells apart (isinstance, ==)
Str(text) == [type |-> "str", data |-> text]
Bytes(b) == [type |-> "bytes", data |-> b]

(***************************************************************************)
(* sip_transport_lib/messaging.py: the SIP message model and parser        *)
(***************************************************************************)

\* A Python dict is the sequence of its <<key, value>> items in insertion order.
DictHas(d, k) == \E i \in 1..Len(d) : d[i][1] = k
DictGet(d, k) == d[CHOOSE i \in 1..Len(d) : d[i][1] = k][2]
\* d[k] = v: an existing key keeps its place
DictSet(d, k, v) ==
    IF DictHas(d, k)
    THEN [i \in 1..Len(d) |-> IF d[i][1] = k THEN <<k, v>> ELSE d[i]]
    ELSE Append(d, <<k, v>>)
\* dict equality does not look at the order of the items
DictItems(d) == {d[i] : i \in 1..Len(d)}

Capitalize(part) ==
    IF part = <<>> THEN <<>> ELSE <<UpperChar(part[1])>> \o Lower(Tail(part))

_normalize_header_name(name) ==
    LET parts == SelectSeq(Split(name, <<45>>), LAMBDA p : p # <<>>)
    IN  Join([i \in 1..Len(parts) |-> Capitalize(parts[i])], <<45>>)

RECURSIVE NormalizeKeys(_)
\* {_normalize_header_name(k): v for k, v in headers.items()}
NormalizeKeys(headers) ==
    IF headers = <<>> THEN <<>>
    ELSE LET last == headers[Len(headers)]
         IN  DictSet(NormalizeKeys(Take(headers, Len(headers) - 1)),
                     _normalize_header_name(last[1]), last[2])

ContentLengthName == Txt(<<"C", "o", "n", "t", "e", "n", "t", "-", "L", "e", "n", "g", "t", "h">>)

\* SIPMessage: start_line, headers, body
SIPMessage(start_line, headers, body) ==
    [start_line |-> start_line, headers |-> headers, body |-> body]

\* as if the stored header names were kept as the caller wrote them
_with_content_length_as_stored(m) ==
    DictSet(m.headers, ContentLengthName, FormatInt(Len(Utf8Encode(m.body))))

_with_content_length(m) ==
    DictSet(NormalizeKeys(m.headers), ContentLengthName,
            FormatInt(Len(Utf8Encode(m.body))))

to_string(m) ==
    LET hs == _with_content_length(m)
        header_lines == [i \in 1..Len(hs) |-> hs[i][1] \o <<58, 32>> \o hs[i][2]]
        parts == <<m.start_line>> \o header_lines \o << <<>> >>
    IN  Join(IF m.body # <<>> THEN Append(parts, m.body) ELSE parts, CRLF)

to_bytes(m) == Utf8Encode(to_string(m))

SIPRequest_build(method, uri, headers, body) ==
    [kind |-> "SIPRequest",
     start_line |-> method \o <<32>> \o uri \o <<32>> \o Txt(<<"S", "I", "P", "/", "2", ".", "0">>),
     headers |-> NormalizeKeys(headers), body |-> body,
     method |-> method, uri |-> uri,
     version |-> Txt(<<"S", "I", "P", "/", "2", ".", "0">>)]

SIPResponse_build(status_code, reason, headers, body) ==
    [kind |-> "SIPResponse",
     start_line |-> Txt(<<"S", "I", "P", "/", "2", ".", "0">>) \o <<32>>
                    \o FormatInt(status_code) \o <<32>> \o reason,
     headers |-> NormalizeKeys(headers), body |-> body,
     status_code |-> status_code, reason |-> reason,
     version |-> Txt(<<"S", "I", "P", "/", "2", ".", "0">>)]

SIPParseError(why) == [kind |-> "SIPParseError", why |-> why]

RECURSIVE ParseHeaderLines(_, _, _)
\* the loop of _parse_headers: headers so far, current_name (<<>> for None)
ParseHeaderLines(lines, headers, current_name) ==
    IF lines = <<>> THEN [ok |-> TRUE, headers |-> headers]
    ELSE LET line == lines[1]
         IN  IF line # <<>> /\ line[1] \in {32, 9} /\ current_name # <<>>
             THEN ParseHeaderLines(
                      Tail(lines),
                      DictSet(headers, current_name,
                              DictGet(headers, current_name) \o <<32>> \o Strip(line)),
                      current_name)
             ELSE IF ~Contains(line, <<58>>)
             THEN [ok |-> FALSE, headers |-> headers]
             ELSE LET nv == SplitN(line, <<58>>, 1)
                      name == _normalize_header_name(Strip(nv[1]))
                  IN  ParseHeaderLines(Tail(lines), DictSet(headers, name, Strip(nv[2])), name)

_parse_headers(lines) == ParseHeaderLines(lines, <<>>, <<>>)

_parse_request_line(line) ==
    LET parts == SplitN(line, <<32>>, 2)
    IN  IF Len(parts) # 3 THEN [ok |-> FALSE]
        ELSE [ok |-> TRUE, method |-> parts[1], uri |-> parts[2], version |-> parts[3]]

_parse_status_line(line) ==
    LET parts == Split(line, <<32>>)
    IN  IF Len(parts) < 3 THEN [ok |-> FALSE]
        ELSE LET code == ParseInt(parts[2])
             IN  IF ~code.ok THEN [ok |-> FALSE]
                 ELSE [ok |-> TRUE, version |-> parts[1], status_code |-> code.value,
                       reason |-> Join(From(parts, 3), <<32>>)]

parse_sip_message(data) ==
    LET text == Utf8Decode(data)
    IN  IF ~Contains(text, CRLF \o CRLF)
        THEN SIPParseError("SIP message missing header terminator")
        ELSE
        LET halves == SplitN(text, CRLF \o CRLF, 1)
            body == halves[2]
            raw_lines == Split(halves[1], CRLF)
            header_lines ==
                SelectSeq([i \in 1..Len(raw_lines) |-> Strip(raw_lines[i])],
                          LAMBDA l : l # <<>>)
        IN  IF header_lines = <<>> THEN SIPParseError("Empty SIP message")
            ELSE
            LET start_line == header_lines[1]
                hs == _parse_headers(Tail(header_lines))
            IN  IF ~hs.ok THEN SIPParseError("Malformed header line")
                ELSE IF StartsWith(Upper(start_line), Txt(<<"S", "I", "P", "/">>))
                THEN LET st == _parse_status_line(start_line)
                     IN  IF ~st.ok THEN SIPParseError("Invalid status line")
                         ELSE [kind |-> "SIPResponse", start_line |-> start_line,
                               headers |-> hs.headers, body |-> body,
                               status_code |-> st.status_code, reason |-> st.reason,
                               version |-> st.version]
                ELSE LET rq == _parse_request_line(start_line)
                     IN  IF ~rq.ok THEN SIPParseError("Invalid request line")
                         ELSE [kind |-> "SIPRequest", start_line |-> start_line,
                               headers |-> hs.headers, body |-> body,
                               method |-> rq.method, uri |-> rq.uri,
                               version |-> rq.version]

(***************************************************************************)
(* sip_transport_lib/transport/tcp.py: the stream framer                   *)
(***************************************************************************)

_content_length_from_headers(header_block) ==
    LET lines == Split(Utf8Decode(header_block), CRLF)
        prefix == Lower(ContentLengthName) \o <<58>>
        hits == {i \in 1..Len(lines) : StartsWith(Lower(lines[i]), prefix)}
    IN  IF hits = {} THEN 0
        ELSE LET n == ParseInt(Strip(SplitN(lines[MinOf(hits)], <<58>>, 1)[2]))
             IN  IF n.ok THEN n.value ELSE 0

\* _split_sip_message: found is FALSE for a None message
_split_sip_message(buffer) ==
    LET delimiter == CRLF \o CRLF
    IN  IF ~Contains(buffer, delimiter)
        THEN [found |-> FALSE, message |-> <<>>, remainder |-> buffer]
        ELSE
        LET header_end == (Find(buffer, delimiter) - 1) + Len(delimiter)
            content_length == _content_length_from_headers(Take(buffer, header_end))
            total_length == header_end + content_length
        IN  IF Len(buffer) < total_length
            THEN [found |-> FALSE, message |-> <<>>, remainder |-> buffer]
            ELSE [found |-> TRUE, message |-> PySlice(buffer, 0, total_length),
                  remainder |-> PySlice(buffer, total_length, Len(buffer))]

(***************************************************************************)
(* protocol/utils/address.py: BCD digits                                   *)
(***************************************************************************)

\* _BCD_SYMBOLS: 0-9 * # A a B b C c F f, as code point -> nibble
_BCD_SYMBOLS ==
    [c \in (48..57) \cup {42, 35, 65, 97, 66, 98, 67, 99, 70, 102} |->
        IF c \in 48..57 THEN c - 48
        ELSE IF c = 42 THEN 10
        ELSE IF c = 35 THEN 11
        ELSE IF c \in {65, 97} THEN 12
        ELSE IF c \in {66, 98} THEN 13
        ELSE IF c \in {67, 99} THEN 14
        ELSE 15]

\* _BCD_DECODE: nibble -> code point of 0-9 * # A B C F
_BCD_DECODE ==
    [n \in 0..15 |->
        IF n <= 9 THEN 48 + n
        ELSE IF n = 10 THEN 42
        ELSE IF n = 11 THEN 35
        ELSE IF n = 12 THEN 65
        ELSE IF n = 13 THEN 66
        ELSE IF n = 14 THEN 67
        ELSE 70]

encode_bcd_digits(digits) ==
    LET clean == SelectSeq(digits, LAMBDA c : c # 32)
        known(c) == c \in DOMAIN _BCD_SYMBOLS \/ UpperChar(c) \in DOMAIN _BCD_SYMBOLS
        nibble(c) == IF c \in DOMAIN _BCD_SYMBOLS THEN _BCD_SYMBOLS[c]
                     ELSE _BCD_SYMBOLS[UpperChar(c)]
        values == [i \in 1..Len(clean) |-> nibble(clean[i])]
        padded == IF Len(values) % 2 = 1 THEN Append(values, 15) ELSE values
    IN  IF clean = <<>> THEN Ok(<<>>)
        ELSE IF \E i \in 1..Len(clean) : ~known(clean[i])
        THEN ValueError("Unsupported BCD digit")
        ELSE Ok([k \in 1..(Len(padded) \div 2) |->
                    (padded[2 * k - 1] % 16) + 16 * (padded[2 * k] % 16)])

decode_bcd_digits(data, digits_len) ==
    LET chars == [j \in 1..(2 * Len(data)) |->
                    IF j % 2 = 1 THEN _BCD_DECODE[data[(j + 1) \div 2] % 16]
                    ELSE _BCD_DECODE[(data[j \div 2] \div 16) % 16]]
        number == PySlice(chars, 0, digits_len)
    IN  SelectSeq(number, LAMBDA c : c # 70)

(***************************************************************************)
(* protocol/utils/address.py: addresses                                    *)
(***************************************************************************)

\* Address(digits, type_of_number, numbering_plan)
Address(digits, type_of_number, numbering_plan) ==
    [digits |-> digits, type_of_number |-> type_of_number,
     numbering_plan |-> numbering_plan]

encode_address(address) ==
    LET toa == 128 + ((address.type_of_number % 8) * 16) + (address.numbering_plan % 16)
        encoded(encoded_digits) ==
            IF ~encoded_digits.ok THEN encoded_digits
            ELSE IF Len(address.digits) > 255 THEN ValueError("bytes must be in range(0, 256)")
            ELSE Ok(<<Len(address.digits), toa>> \o encoded_digits.value)
    IN  encoded(encode_bcd_digits(address.digits))

\* decode_address: <<the address, the offset after it>>
decode_address(data, offset) ==
    IF offset + 1 >= Len(data) THEN IndexError
    ELSE
    LET length == data[offset + 1]
        toa == data[offset + 2]
        digits_octets == (length + 1) \div 2
        digits == decode_bcd_digits(PySlice(data, offset + 2, offset + 2 + digits_octets),
                                    length)
    IN  Ok(<<Address(digits, (toa \div 16) % 8, toa % 16), offset + 2 + digits_octets>>)

\* encode_smsc: address is <<>> for None, <<the Address>> otherwise
encode_smsc(address) ==
    LET toa == 128 + ((address[1].type_of_number % 8) * 16)
               + (address[1].numbering_plan % 16)
        encoded(encoded_digits) ==
            IF ~encoded_digits.ok THEN encoded_digits
            ELSE IF 1 + Len(encoded_digits.value) > 255
            THEN ValueError("bytes must be in range(0, 256)")
            ELSE Ok(<<1 + Len(encoded_digits.value), toa>> \o encoded_digits.value)
    IN  IF address = <<>> THEN Ok(<<0>>)
        ELSE encoded(encode_bcd_digits(address[1].digits))

\* decode_smsc: <<<<>> or <<the Address>>, the offset after it>>
decode_smsc(data, offset) ==
    LET length == data[offset + 1]
        decoded(body) ==
            IF body = <<>> THEN ValueError("Invalid SMSC section")
            ELSE Ok(<<<<Address(decode_bcd_digits(Tail(body), (Len(body) - 1) * 2),
                                (body[1] \div 16) % 8, body[1] % 16)>>,
                      offset + 1 + length>>)
    IN  IF offset >= Len(data) THEN IndexError
        ELSE IF length = 0 THEN Ok(<<<<>>, offset + 1>>)
        ELSE decoded(PySlice(data, offset + 1, offset + 1 + length))

(***************************************************************************)
(* protocol/sms/dcs.py                                                     *)
(***************************************************************************)

\* DataCodingScheme(raw) with the fields __post_init__ derives by _decode;
\* message_class is <<>> for None
DataCodingScheme(raw) ==
    LET selector == (raw \div 4) % 4
        derived ==
            IF (raw \div 64) % 4 \in {0, 1}
            THEN <<IF selector = 1 THEN "8bit" ELSE IF selector = 2 THEN "ucs2" ELSE "gsm7",
                   IF (raw \div 16) % 2 = 1 /\ raw % 4 # 0 THEN <<raw % 4>> ELSE <<>>,
                   (raw \div 32) % 2 = 1>>
            ELSE IF (raw \div 16) % 16 = 14 THEN <<"ucs2", <<>>, FALSE>>
            ELSE IF (raw \div 16) % 16 = 15 THEN <<"gsm7", <<raw % 4>>, FALSE>>
            ELSE IF (raw \div 16) % 16 = 12 THEN <<"8bit", <<>>, FALSE>>
            ELSE <<"gsm7", <<>>, FALSE>>
    IN  [raw |-> raw, alphabet |-> derived[1], message_class |-> derived[2],
         compressed |-> derived[3]]

(***************************************************************************)
(* protocol_lib/utils/timestamp.py                                         *)
(***************************************************************************)

RECURSIVE BitAndUpTo(_, _, _)
BitAndUpTo(x, m, k) ==
    IF k < 0 THEN 0
    ELSE BitAndUpTo(x, m, k - 1)
         + (((x \div (2 ^ k)) % 2) * ((m \div (2 ^ k)) % 2)) * (2 ^ k)
\* x & m and x | m on octets
BitAnd(x, m) == BitAndUpTo(x, m, 7)
BitOr(x, m) == x + m - BitAnd(x, m)

swap_nibbles(value) == ((value % 16) * 16) + ((value \div 16) % 16)

semi_octet_to_int(byte) == (byte % 16) * 10 + ((byte \div 16) % 16)

\* datetime(...): tz is <<the UTC offset in minutes>>, <<>> for tzinfo None
DateTime(year, month, day, hour, minute, second, tz) ==
    [year |-> year, month |-> month, day |-> day, hour |-> hour,
     minute |-> minute, second |-> second, tz |-> tz]

\* the dates the datetime constructor accepts
DaysInMonth(year, month) ==
    IF month \in {4, 6, 9, 11} THEN 30
    ELSE IF month # 2 THEN 31
    ELSE IF year % 4 = 0 /\ (year % 100 # 0 \/ year % 400 = 0) THEN 29
    ELSE 28

encode_timestamp(dt) ==
    LET offset_minutes == IF dt.tz = <<>> THEN 0 ELSE dt.tz[1]
        magnitude == IF offset_minutes < 0 THEN 0 - offset_minutes ELSE offset_minutes
        quarter_hours == IF magnitude \div 15 > 63 THEN 63 ELSE magnitude \div 15
        digits == <<dt.year % 100, dt.month, dt.day, dt.hour, dt.minute, dt.second>>
        octet(value) == swap_nibbles(((value % 10) * 16) + (value \div 10))
        tz == swap_nibbles(((quarter_hours % 10) * 16) + (quarter_hours \div 10))
    IN  IF \E i \in 1..6 : ~(digits[i] \in 0..99)
        THEN ValueError("Timestamp component out of range")
        ELSE Ok([i \in 1..7 |->
                    IF i <= 6 THEN octet(digits[i])
                    ELSE IF offset_minutes < 0 THEN BitOr(tz, 8) ELSE tz])

decode_timestamp(data) ==
    IF Len(data) # 7 THEN ValueError("Timestamp must be exactly 7 octets")
    ELSE
    LET values == [i \in 1..6 |-> semi_octet_to_int(data[i])]
        tz_byte == data[7]
        sign == IF BitAnd(tz_byte, 8) # 0 THEN 0 - 1 ELSE 1
        tz_quarters == semi_octet_to_int(BitAnd(tz_byte, 247))
        year == values[1] + (IF values[1] < 70 THEN 2000 ELSE 1900)
        clamp(lo, v, hi) == IF v < lo THEN lo ELSE IF v > hi THEN hi ELSE v
        month == clamp(1, values[2], 12)
        day == clamp(1, values[3], 31)
    IN  IF day > DaysInMonth(year, month) THEN ValueError("day is out of range for month")
        ELSE Ok(DateTime(year, month, day, clamp(0, values[4], 23),
                         clamp(0, values[5], 59), clamp(0, values[6], 59),
                         <<sign * tz_quarters * 15>>))

(***************************************************************************)
(* protocol_lib/gsm/gsm7.py                                                *)
(***************************************************************************)

\* GSM7_BASIC_TABLE as code points; septet v is entry v + 1
GSM7_BASIC_TABLE ==
    << 64, 163, 36, 165, 232, 233, 249, 236, 242, 199, 10, 216, 248, 13, 197, 229,
       916, 95, 934, 915, 923, 937, 928, 936, 931, 920, 926, 27, 198, 230, 223, 201,
       32, 33, 34, 35, 164, 37, 38, 39, 40, 41, 42, 43, 44, 45, 46, 47,
       48, 49, 50, 51, 52, 53, 54, 55, 56, 57, 58, 59, 60, 61, 62, 63,
       161, 65, 66, 67, 68, 69, 70, 71, 72, 73, 74, 75, 76, 77, 78, 79,
       80, 81, 82, 83, 84, 85, 86, 87, 88, 89, 90, 196, 214, 209, 220, 167,
       191, 97, 98, 99, 100, 101, 102, 103, 104, 105, 106, 107, 108, 109, 110, 111,
       112, 113, 114, 115, 116, 117, 118, 119, 120, 121, 122, 228, 246, 241, 252, 224 >>

\* GSM7_EXTENDED_TABLE: septet after the escape -> code point
GSM7_EXTENDED_TABLE ==
    (10 :> 12) @@ (20 :> 94) @@ (40 :> 123) @@ (41 :> 125) @@ (47 :> 92)
    @@ (60 :> 91) @@ (61 :> 126) @@ (62 :> 93) @@ (64 :> 124) @@ (101 :> 8364)

\* membership in and lookup of GSM7_BASIC_MAP and GSM7_EXTENDED_REVERSE
InBasicMap(ch) == \E i \in 1..Len(GSM7_BASIC_TABLE) : GSM7_BASIC_TABLE[i] = ch
GSM7_BASIC_MAP(ch) ==
    MaxOf({i \in 1..Len(GSM7_BASIC_TABLE) : GSM7_BASIC_TABLE[i] = ch}) - 1
InExtendedReverse(ch) == \E k \in DOMAIN GSM7_EXTENDED_TABLE : GSM7_EXTENDED_TABLE[k] = ch
GSM7_EXTENDED_REVERSE(ch) ==
    CHOOSE k \in DOMAIN GSM7_EXTENDED_TABLE : GSM7_EXTENDED_TABLE[k] = ch

encode_gsm7_text(text) ==
    LET septetsOf(ch) ==
            IF InBasicMap(ch) THEN <<GSM7_BASIC_MAP(ch)>>
            ELSE <<27, GSM7_EXTENDED_REVERSE(ch)>>
    IN  IF \E i \in 1..Len(text) : ~InBasicMap(text[i]) /\ ~InExtendedReverse(text[i])
        THEN ValueError("Character not supported in GSM 7-bit alphabet")
        ELSE Ok(Flatten([i \in 1..Len(text) |-> septetsOf(text[i])]))

\* decode_gsm7_text: the septet at i is an escape exactly when it is 0x1B and an
\* even number of 0x1B septets stand directly before it
decode_gsm7_text(septets) ==
    LET escapesBefore(i) ==
            i - 1 - MaxOf({0} \cup {j \in 1..(i - 1) : septets[j] # 27})
        isEscape(i) == septets[i] = 27 /\ escapesBefore(i) % 2 = 0
        at(i) ==
            IF isEscape(i) THEN <<>>
            ELSE IF i > 1 /\ isEscape(i - 1)
            THEN <<IF septets[i] \in DOMAIN GSM7_EXTENDED_TABLE
                   THEN GSM7_EXTENDED_TABLE[septets[i]] ELSE 32>>
            ELSE IF septets[i] >= Len(GSM7_BASIC_TABLE) THEN <<32>>
            ELSE <<GSM7_BASIC_TABLE[septets[i] + 1]>>
    IN  Flatten([i \in 1..Len(septets) |-> at(i)])

\* septets_to_bits: the seven bits of each septet, least significant first
septets_to_bits(septets) ==
    [k \in 1..(7 * Len(septets)) |->
        (septets[((k - 1) \div 7) + 1] \div (2 ^ ((k - 1) % 7))) % 2]

\* bits_to_septets: one septet per segment of seven bits, a short last segment
\* included
bits_to_septets(bits) ==
    LET bit(i) == IF i <= Len(bits) THEN bits[i] % 2 ELSE 0
    IN  [g \in 1..((Len(bits) + 6) \div 7) |->
            bit(7 * g - 6) + 2 * bit(7 * g - 5) + 4 * bit(7 * g - 4) + 8 * bit(7 * g - 3)
            + 16 * bit(7 * g - 2) + 32 * bit(7 * g - 1) + 64 * bit(7 * g)]

bytes_to_bits_lsb(data) ==
    [k \in 1..(8 * Len(data)) |-> (data[((k - 1) \div 8) + 1] \div (2 ^ ((k - 1) % 8))) % 2]

bits_to_bytes(bits) ==
    LET bit(i) == IF i <= Len(bits) THEN bits[i] % 2 ELSE 0
    IN  [g \in 1..((Len(bits) + 7) \div 8) |->
            bit(8 * g - 7) + 2 * bit(8 * g - 6) + 4 * bit(8 * g - 5) + 8 * bit(8 * g - 4)
            + 16 * bit(8 * g - 3) + 32 * bit(8 * g - 2) + 64 * bit(8 * g - 1)
            + 128 * bit(8 * g)]

(***************************************************************************)
(* protocol_lib/utils/validity.py: a timedelta is [seconds |-> n]          *)
(***************************************************************************)

encode_relative_validity(delta) ==
    LET minutes == (IF delta.seconds > 0 THEN delta.seconds ELSE 0) \div 60
        atLeast(lo, v) == IF v < lo THEN lo ELSE v
        atMost(hi, v) == IF v > hi THEN hi ELSE v
        days == (minutes + 1439) \div 1440
        weeks == (minutes + 10079) \div (7 * 24 * 60)
    IN  IF minutes <= 12 * 60 THEN atMost(144, atLeast(1, (minutes + 4) \div 5)) - 1
        ELSE IF minutes <= 24 * 60
        THEN atMost(24, atLeast(1, (minutes - 12 * 60 + 29) \div 30)) + 143
        ELSE IF minutes <= 30 * 24 * 60 THEN atLeast(2, atMost(30, days)) + 166
        ELSE atLeast(5, atMost(63, weeks)) + 192

\* as if every TP-VP byte counted five-minute units
decode_relative_validity_flat(value) == [seconds |-> (value + 1) * 5 * 60]

decode_relative_validity(value) ==
    LET minutes ==
            IF value <= 143 THEN (value + 1) * 5
            ELSE IF value <= 167 THEN 12 * 60 + (value - 143) * 30
            ELSE IF value <= 196 THEN (value - 166) * 24 * 60
            ELSE (value - 192) * 7 * 24 * 60
    IN  [seconds |-> minutes * 60]

(***************************************************************************)
(* protocol_lib/sms/user_data.py                                           *)
(***************************************************************************)

\* UserData(payload, encoding, header): payload is Str(text) or Bytes(b), header
\* is <<>> for None and <<the header bytes>> otherwise
UserData(payload, encoding, header) ==
    [payload |-> payload, encoding |-> encoding, header |-> header]

\* as if 8-bit and UCS-2 user data of any length were accepted
encode_user_data_unbounded(user_data, dcs) ==
    LET named == IF user_data.encoding # "" THEN user_data.encoding ELSE dcs.alphabet
        encoding == CASE named = "GSM7" -> "gsm7" [] named = "7BIT" -> "7bit"
                      [] named = "8BIT" -> "8bit" [] named = "UCS2" -> "ucs2"
                      [] OTHER -> named
        header == IF user_data.header = <<>> THEN <<>>
                  ELSE <<Len(user_data.header[1])>> \o user_data.header[1]
        payload == user_data.payload
        packed(septets, ud_bytes) ==
            LET udl == Len(septets.value) + (((Len(header) * 8) + 6) \div 7)
            IN  IF udl > 160 THEN ValueError("GSM 7-bit payload exceeds 160 septets")
                ELSE IF Len(ud_bytes) > 140
                THEN ValueError("GSM 7-bit payload exceeds 140 octets")
                ELSE Ok(<<udl, ud_bytes>>)
        gsm7(septets) ==
            IF ~septets.ok THEN septets
            ELSE packed(septets,
                        bits_to_bytes((IF header # <<>> THEN bytes_to_bits_lsb(header)
                                       ELSE <<>>) \o septets_to_bits(septets.value)))
        utf16(c) == IF c < 65536 THEN <<c \div 256, c % 256>>
                    ELSE <<216 + ((c - 65536) \div 262144), ((c - 65536) \div 1024) % 256,
                           220 + (((c - 65536) % 1024) \div 256), (c - 65536) % 256>>
        sized(ud_bytes, why) == Ok(<<Len(ud_bytes), ud_bytes>>)
    IN  IF user_data.header # <<>> /\ Len(user_data.header[1]) > 140
        THEN ValueError("User data header too large")
        ELSE IF encoding \in {"gsm7", "7bit"} THEN
            IF payload.type # "str"
            THEN Raise("TypeError", "GSM 7-bit user data expects text input")
            ELSE gsm7(encode_gsm7_text(payload.data))
        ELSE IF encoding = "8bit" THEN
            IF payload.type = "str" /\ \E i \in 1..Len(payload.data) : payload.data[i] > 255
            THEN Raise("UnicodeEncodeError", "latin-1")
            ELSE sized(header \o payload.data, "8-bit payload exceeds 140 octets")
        ELSE IF encoding = "ucs2" THEN
            IF payload.type = "str"
               /\ \E i \in 1..Len(payload.data) : payload.data[i] \in 55296..57343
            THEN Raise("UnicodeEncodeError", "utf-16-be")
            ELSE sized(header \o (IF payload.type = "str"
                                  THEN Flatten([i \in 1..Len(payload.data) |->
                                                   utf16(payload.data[i])])
                                  ELSE payload.data),
                       "UCS2 payload exceeds maximum length")
        ELSE ValueError("Unsupported user data encoding")

\* encode_user_data: <<udl, ud_bytes>>
encode_user_data(user_data, dcs) ==
    LET named == IF user_data.encoding # "" THEN user_data.encoding ELSE dcs.alphabet
        encoding == CASE named = "GSM7" -> "gsm7" [] named = "7BIT" -> "7bit"
                      [] named = "8BIT" -> "8bit" [] named = "UCS2" -> "ucs2"
                      [] OTHER -> named
        header == IF user_data.header = <<>> THEN <<>>
                  ELSE <<Len(user_data.header[1])>> \o user_data.header[1]
        payload == user_data.payload
        packed(septets, ud_bytes) ==
            LET udl == Len(septets.value) + (((Len(header) * 8) + 6) \div 7)
            IN  IF udl > 160 THEN ValueError("GSM 7-bit payload exceeds 160 septets")
                ELSE IF Len(ud_bytes) > 140
                THEN ValueError("GSM 7-bit payload exceeds 140 octets")
                ELSE Ok(<<udl, ud_bytes>>)
        gsm7(septets) ==
            IF ~septets.ok THEN septets
            ELSE packed(septets,
                        bits_to_bytes((IF header # <<>> THEN bytes_to_bits_lsb(header)
                                       ELSE <<>>) \o septets_to_bits(septets.value)))
        utf16(c) == IF c < 65536 THEN <<c \div 256, c % 256>>
                    ELSE <<216 + ((c - 65536) \div 262144), ((c - 65536) \div 1024) % 256,
                           220 + (((c - 65536) % 1024) \div 256), (c - 65536) % 256>>
        sized(ud_bytes, why) ==
            IF Len(ud_bytes) > 140 THEN ValueError(why)
            ELSE Ok(<<Len(ud_bytes), ud_bytes>>)
    IN  IF user_data.header # <<>> /\ Len(user_data.header[1]) > 140
        THEN ValueError("User data header too large")
        ELSE IF encoding \in {"gsm7", "7bit"} THEN
            IF payload.type # "str"
            THEN Raise("TypeError", "GSM 7-bit user data expects text input")
            ELSE gsm7(encode_gsm7_text(payload.data))
        ELSE IF encoding = "8bit" THEN
            IF payload.type = "str" /\ \E i \in 1..Len(payload.data) : payload.data[i] > 255
            THEN Raise("UnicodeEncodeError", "latin-1")
            ELSE sized(header \o payload.data, "8-bit payload exceeds 140 octets")
        ELSE IF encoding = "ucs2" THEN
            IF payload.type = "str"
               /\ \E i \in 1..Len(payload.data) : payload.data[i] \in 55296..57343
            THEN Raise("UnicodeEncodeError", "utf-16-be")
            ELSE sized(header \o (IF payload.type = "str"
                                  THEN Flatten([i \in 1..Len(payload.data) |->
                                                   utf16(payload.data[i])])
                                  ELSE payload.data),
                       "UCS2 payload exceeds maximum length")
        ELSE ValueError("Unsupported user data encoding")

decode_user_data(ud_bytes, udl, dcs, udhi) ==
    LET udhl == ud_bytes[1]
        header == IF ~udhi \/ udhl = 0 THEN <<>> ELSE <<SubSeq(ud_bytes, 2, 1 + udhl)>>
        header_bits == IF udhi THEN ((IF header = <<>> THEN 0 ELSE Len(header[1])) + 1) * 8
                       ELSE 0
        payload_septets == IF udl - ((header_bits + 6) \div 7) > 0
                           THEN udl - ((header_bits + 6) \div 7) ELSE 0
        gsm7(payload_bits) ==
            IF Len(payload_bits) # payload_septets * 7
            THEN ValueError("Insufficient GSM 7-bit payload bits")
            ELSE Ok(UserData(Str(decode_gsm7_text(bits_to_septets(payload_bits))),
                             "gsm7", header))
        \* payload_bytes.decode("utf-16-be"): a high surrogate pairs with the low
        \* surrogate after it
        ucs2(payload_bytes) ==
            LET unit(k) == 256 * payload_bytes[2 * k - 1] + payload_bytes[2 * k]
                units == Len(payload_bytes) \div 2
                high == {k \in 1..units : unit(k) \in 55296..56319}
                low == {k \in 1..units : unit(k) \in 56320..57343}
                char(k) ==
                    IF k \in high
                    THEN <<65536 + (unit(k) - 55296) * 1024 + (unit(k + 1) - 56320)>>
                    ELSE IF k \in low THEN <<>> ELSE <<unit(k)>>
            IN  IF \/ Len(payload_bytes) % 2 = 1
                   \/ \E k \in high : k + 1 \notin low
                   \/ \E k \in low : k - 1 \notin high
                THEN Raise("UnicodeDecodeError", "utf-16-be")
                ELSE Ok(UserData(Str(Flatten([k \in 1..units |-> char(k)])), "ucs2",
                                 header))
        decoded(payload_bytes) ==
            IF dcs.alphabet = "gsm7"
            THEN gsm7(PySlice(bytes_to_bits_lsb(ud_bytes), header_bits,
                              header_bits + payload_septets * 7))
            ELSE IF dcs.alphabet = "ucs2" THEN ucs2(payload_bytes)
            ELSE Ok(UserData(Bytes(payload_bytes), "8bit", header))
    IN  IF udhi /\ ud_bytes = <<>> THEN ValueError("UDHI set but user data absent")
        ELSE IF udhi /\ Len(ud_bytes) < 1 + udhl
        THEN ValueError("UD header length exceeds available user data")
        ELSE decoded(IF udhi THEN PySlice(ud_bytes, 1 + udhl, Len(ud_bytes)) ELSE ud_bytes)

\* extract_user_data_bytes: <<the user data bytes, the offset after them>>
extract_user_data_bytes(data, offset, udl, alphabet, udhi) ==
    LET udhl == data[offset + 1]
        header_bits == (udhl + 1) * 8
        header_septets == (header_bits + 6) \div 7
        payload_septets == IF udl - header_septets > 0 THEN udl - header_septets ELSE 0
        byte_len == IF alphabet # "gsm7" THEN udl
                    ELSE IF udhi THEN (header_bits + payload_septets * 7 + 7) \div 8
                    ELSE (udl * 7 + 7) \div 8
    IN  IF alphabet = "gsm7" /\ udhi /\ offset >= Len(data)
        THEN ValueError("Expected UDHL byte but reached end of TPDU")
        ELSE Ok(<<PySlice(data, offset, offset + byte_len), offset + byte_len>>)

(***************************************************************************)
(* protocol_lib/sms/codec.py.  The dataclasses of messages.py are records  *)
(* with a type field; an Optional field is <<>> for None and <<value>>     *)
(* otherwise.  A function that returns (value, offset) returns the pair.   *)
(***************************************************************************)

\* binascii.hexlify(data).decode("ascii") and binascii.unhexlify(text)
hexlify(data) ==
    LET digit(d) == IF d < 10 THEN 48 + d ELSE 87 + d
    IN  [k \in 1..(2 * Len(data)) |->
            IF k % 2 = 1 THEN digit(data[(k + 1) \div 2] \div 16)
            ELSE digit(data[k \div 2] % 16)]

unhexlify(text) ==
    LET isHex(c) == c \in (48..57) \cup (65..70) \cup (97..102)
        value(c) == IF c <= 57 THEN c - 48 ELSE IF c <= 70 THEN c - 55 ELSE c - 87
    IN  IF Len(text) % 2 = 1 THEN Raise("binascii.Error", "Odd-length string")
        ELSE IF \E i \in 1..Len(text) : ~isHex(text[i])
        THEN Raise("binascii.Error", "Non-hexadecimal digit found")
        ELSE Ok([k \in 1..(Len(text) \div 2) |->
                    16 * value(text[2 * k - 1]) + value(text[2 * k])])

\* the first exception among the results of consecutive calls, else Ok(value)
Chain(results, value) ==
    LET bad == {i \in 1..Len(results) : ~results[i].ok}
    IN  IF bad = {} THEN Ok(value) ELSE results[MinOf(bad)]

\* udl = data[offset]; extract_user_data_bytes; decode_user_data, as the three
\* TPDU decoders do it: <<the UserData, the offset after it>>
ReadUserData(data, offset, dcs, udhi) ==
    LET udl == data[offset + 1]
        made(ud, user_data) ==
            IF ~user_data.ok THEN user_data ELSE Ok(<<user_data.value, ud.value[2]>>)
        extracted(ud) ==
            IF ~ud.ok THEN ud
            ELSE made(ud, decode_user_data(ud.value[1], udl, dcs, udhi))
    IN  IF offset >= Len(data) THEN IndexError
        ELSE extracted(extract_user_data_bytes(data, offset + 1, udl, dcs.alphabet, udhi))

_decode_deliver(data, offset) ==
    LET first_octet == data[offset + 1]
        flag(mask) == (first_octet \div mask) % 2 = 1
        deliver(originating, o1, scts, ud) ==
            IF ~scts.ok THEN scts
            ELSE IF ~ud.ok THEN ud
            ELSE Ok(<<[type |-> "SMSDeliver",
                       originating_address |-> originating,
                       pid |-> data[o1 + 1],
                       dcs |-> DataCodingScheme(data[o1 + 2]),
                       service_center_time_stamp |-> scts.value,
                       user_data |-> ud.value[1],
                       status_report_indication |-> flag(32),
                       more_messages |-> ~flag(4),
                       reply_path |-> flag(128)],
                      ud.value[2]>>)
        addressed(originating) ==
            LET o1 == originating.value[2]
            IN  IF ~originating.ok THEN originating
                ELSE IF o1 + 1 >= Len(data) THEN IndexError
                ELSE deliver(originating.value[1], o1,
                             decode_timestamp(PySlice(data, o1 + 2, o1 + 9)),
                             ReadUserData(data, o1 + 9, DataCodingScheme(data[o1 + 2]),
                                          flag(64)))
    IN  addressed(decode_address(data, offset + 1))

_encode_deliver(deliver) ==
    LET first_octet ==
            (IF deliver.reply_path THEN 128 ELSE 0)
            + (IF deliver.user_data.header # <<>> THEN 64 ELSE 0)
            + (IF deliver.status_report_indication THEN 32 ELSE 0)
            + (IF ~deliver.more_messages THEN 4 ELSE 0)
        encoded(address, scts, ud) ==
            Chain(<<address, scts, ud>>,
                  <<first_octet>> \o address.value
                  \o <<deliver.pid % 256, deliver.dcs.raw % 256>> \o scts.value
                  \o <<ud.value[1] % 256>> \o ud.value[2])
    IN  encoded(encode_address(deliver.originating_address),
                encode_timestamp(deliver.service_center_time_stamp),
                encode_user_data(deliver.user_data, deliver.dcs))

_decode_submit(data, offset) ==
    LET first_octet == data[offset + 1]
        flag(mask) == (first_octet \div mask) % 2 = 1
        vpf == (first_octet \div 8) % 4
        submit(destination, o1, absolute, ud) ==
            IF vpf = 3 /\ ~absolute.ok THEN absolute
            ELSE IF ~ud.ok THEN ud
            ELSE Ok(<<[type |-> "SMSSubmit",
                       message_reference |-> data[offset + 2],
                       destination_address |-> destination,
                       pid |-> data[o1 + 1],
                       dcs |-> DataCodingScheme(data[o1 + 2]),
                       user_data |-> ud.value[1],
                       status_report_request |-> flag(32),
                       reject_duplicates |-> flag(4),
                       reply_path |-> flag(128),
                       validity_period |->
                           IF vpf = 2 THEN <<decode_relative_validity(data[o1 + 3])>>
                           ELSE IF vpf = 3 THEN <<absolute.value>> ELSE <<>>,
                       validity_period_format |->
                           IF vpf = 2 THEN "relative" ELSE IF vpf = 3 THEN "absolute"
                           ELSE "none"],
                      ud.value[2]>>)
        addressed(destination) ==
            LET o1 == destination.value[2]
                o2 == o1 + 2 + (IF vpf = 2 THEN 1 ELSE IF vpf = 3 THEN 7 ELSE 0)
            IN  IF ~destination.ok THEN destination
                ELSE IF o1 + 1 >= Len(data) THEN IndexError
                ELSE IF vpf = 2 /\ o1 + 2 >= Len(data) THEN IndexError
                ELSE submit(destination.value[1], o1,
                            decode_timestamp(PySlice(data, o1 + 2, o1 + 9)),
                            ReadUserData(data, o2, DataCodingScheme(data[o1 + 2]),
                                         flag(64)))
    IN  IF offset + 1 >= Len(data) THEN IndexError
        ELSE addressed(decode_address(data, offset + 2))

\* a validity period is a timedelta ([seconds |-> n]) or a datetime
_encode_submit(submit) ==
    LET flags ==
            1 + (IF submit.reply_path THEN 128 ELSE 0)
            + (IF submit.user_data.header # <<>> THEN 64 ELSE 0)
            + (IF submit.status_report_request THEN 32 ELSE 0)
            + (IF submit.reject_duplicates THEN 4 ELSE 0)
        fmt == IF submit.validity_period_format = "" THEN "none"
               ELSE submit.validity_period_format
        vp == submit.validity_period[1]
        isTimedelta == "seconds" \in DOMAIN vp
        absolute(t) == IF t.ok THEN Ok(<<24, t.value>>) ELSE t
        encoded(vp_field, address, ud) ==
            Chain(<<vp_field, address, ud>>,
                  <<flags + vp_field.value[1], submit.message_reference % 256>>
                  \o address.value \o <<submit.pid % 256, submit.dcs.raw % 256>>
                  \o vp_field.value[2] \o <<ud.value[1] % 256>> \o ud.value[2])
    IN  encoded(IF submit.validity_period = <<>> THEN Ok(<<0, <<>>>>)
                ELSE IF isTimedelta /\ fmt \in {"none", "relative"}
                THEN Ok(<<16, <<encode_relative_validity(vp)>>>>)
                ELSE IF ~isTimedelta /\ fmt = "absolute" THEN absolute(encode_timestamp(vp))
                ELSE ValueError("Unsupported validity period format"),
                encode_address(submit.destination_address),
                encode_user_data(submit.user_data, submit.dcs))

_decode_status_report(data, offset) ==
    LET first_octet == data[offset + 1]
        flag(mask) == (first_octet \div mask) % 2 = 1
        report(recipient, o1, scts, dt, ud) ==
            LET hasTail == o1 + 15 < Len(data)
                tp_pi == IF hasTail THEN data[o1 + 16] ELSE 0
                hasPid == tp_pi % 2 = 1
                hasDcs == (tp_pi \div 2) % 2 = 1
                hasUd == (tp_pi \div 4) % 2 = 1
                oPid == o1 + 16
                oDcs == oPid + (IF hasPid THEN 1 ELSE 0)
                oUd == oDcs + (IF hasDcs THEN 1 ELSE 0)
            IN  IF ~scts.ok THEN scts
                ELSE IF ~dt.ok THEN dt
                ELSE IF o1 + 14 >= Len(data) THEN IndexError
                ELSE IF hasPid /\ oPid >= Len(data) THEN IndexError
                ELSE IF hasDcs /\ oDcs >= Len(data) THEN IndexError
                ELSE IF hasUd /\ ~hasDcs
                THEN ValueError("TP-UD requested but TP-DCS missing in status report")
                ELSE IF hasUd /\ ~ud.ok THEN ud
                ELSE Ok(<<[type |-> "SMSStatusReport",
                           message_reference |-> data[offset + 2],
                           recipient_address |-> recipient,
                           service_center_time_stamp |-> scts.value,
                           discharge_time |-> dt.value,
                           status |-> data[o1 + 15],
                           pid |-> IF hasPid THEN <<data[oPid + 1]>> ELSE <<>>,
                           dcs |-> IF hasDcs THEN <<DataCodingScheme(data[oDcs + 1])>>
                                   ELSE <<>>,
                           user_data |-> IF hasUd THEN <<ud.value[1]>> ELSE <<>>,
                           more_messages |-> ~flag(4),
                           status_report_qualifier |-> flag(32),
                           reply_path |-> flag(128)],
                          IF hasUd THEN ud.value[2]
                          ELSE IF hasTail THEN oUd ELSE o1 + 15>>)
        \* the offset of UDL: after TP-PI and the PID and DCS it announces
        udlAt(o1) == o1 + 16 + (data[o1 + 16] % 2) + ((data[o1 + 16] \div 2) % 2)
        addressed(recipient) ==
            LET o1 == recipient.value[2]
            IN  IF ~recipient.ok THEN recipient
                ELSE report(recipient.value[1], o1,
                            decode_timestamp(PySlice(data, o1, o1 + 7)),
                            decode_timestamp(PySlice(data, o1 + 7, o1 + 14)),
                            ReadUserData(data, udlAt(o1),
                                         DataCodingScheme(data[udlAt(o1)]), flag(64)))
    IN  IF offset + 1 >= Len(data) THEN IndexError
        ELSE addressed(decode_address(data, offset + 2))

\* as if the TP-PI octet were written whatever its value
_encode_status_report_with_pi(report) ==
    LET first_octet ==
            2 + (IF report.reply_path THEN 128 ELSE 0)
            + (IF report.user_data # <<>> /\ report.user_data[1].header # <<>>
               THEN 64 ELSE 0)
            + (IF report.status_report_qualifier THEN 32 ELSE 0)
            + (IF ~report.more_messages THEN 4 ELSE 0)
        tp_pi == (IF report.pid # <<>> THEN 1 ELSE 0) + (IF report.dcs # <<>> THEN 2 ELSE 0)
                 + (IF report.user_data # <<>> THEN 4 ELSE 0)
        encoded(address, scts, dt, ud) ==
            Chain(<<address, scts, dt, ud>>,
                  <<first_octet, report.message_reference % 256>> \o address.value
                  \o scts.value \o dt.value \o <<report.status % 256>>
                  \o <<tp_pi>>
                  \o (IF report.pid # <<>> THEN <<report.pid[1] % 256>> ELSE <<>>)
                  \o (IF report.dcs # <<>> THEN <<report.dcs[1].raw % 256>> ELSE <<>>)
                  \o (IF report.user_data # <<>> THEN <<ud.value[1] % 256>> \o ud.value[2]
                      ELSE <<>>))
    IN  encoded(encode_address(report.recipient_address),
                encode_timestamp(report.service_center_time_stamp),
                encode_timestamp(report.discharge_time),
                IF report.user_data = <<>> THEN Ok(<<>>)
                ELSE IF report.dcs = <<>>
                THEN ValueError("Status report user data requires a data coding scheme")
                ELSE encode_user_data(report.user_data[1], report.dcs[1]))

_encode_status_report(report) ==
    LET first_octet ==
            2 + (IF report.reply_path THEN 128 ELSE 0)
            + (IF report.user_data # <<>> /\ report.user_data[1].header # <<>>
               THEN 64 ELSE 0)
            + (IF report.status_report_qualifier THEN 32 ELSE 0)
            + (IF ~report.more_messages THEN 4 ELSE 0)
        tp_pi == (IF report.pid # <<>> THEN 1 ELSE 0) + (IF report.dcs # <<>> THEN 2 ELSE 0)
                 + (IF report.user_data # <<>> THEN 4 ELSE 0)
        encoded(address, scts, dt, ud) ==
            Chain(<<address, scts, dt, ud>>,
                  <<first_octet, report.message_reference % 256>> \o address.value
                  \o scts.value \o dt.value \o <<report.status % 256>>
                  \o (IF tp_pi # 0 THEN <<tp_pi>> ELSE <<>>)
                  \o (IF report.pid # <<>> THEN <<report.pid[1] % 256>> ELSE <<>>)
                  \o (IF report.dcs # <<>> THEN <<report.dcs[1].raw % 256>> ELSE <<>>)
                  \o (IF report.user_data # <<>> THEN <<ud.value[1] % 256>> \o ud.value[2]
                      ELSE <<>>))
    IN  encoded(encode_address(report.recipient_address),
                encode_timestamp(report.service_center_time_stamp),
                encode_timestamp(report.discharge_time),
                IF report.user_data = <<>> THEN Ok(<<>>)
                ELSE IF report.dcs = <<>>
                THEN ValueError("Status report user data requires a data coding scheme")
                ELSE encode_user_data(report.user_data[1], report.dcs[1]))

_encode_tpdu(tpdu) ==
    CASE tpdu.type = "SMSDeliver" -> _encode_deliver(tpdu)
      [] tpdu.type = "SMSSubmit" -> _encode_submit(tpdu)
      [] tpdu.type = "SMSStatusReport" -> _encode_status_report(tpdu)
      [] OTHER -> Raise("TypeError", "Unsupported TPDU type")

\* SMSMessage(smsc, tpdu)
SMSMessage(smsc, tpdu) == [smsc |-> smsc, tpdu |-> tpdu]

\* decode_sms: data is Str(hex text) or Bytes(b)
decode_sms(data) ==
    LET message(raw, smsc, tpdu) ==
            IF ~tpdu.ok THEN tpdu
            ELSE IF tpdu.value[2] # Len(raw)
            THEN ValueError("Extra trailing data detected in TPDU")
            ELSE Ok(SMSMessage(smsc.value[1], tpdu.value[1]))
        headed(raw, smsc) ==
            LET idx == smsc.value[2]
                mti == raw[idx + 1] % 4
            IN  IF ~smsc.ok THEN smsc
                ELSE IF idx >= Len(raw) THEN ValueError("Missing TPDU after SMSC header")
                ELSE message(raw, smsc,
                             CASE mti = 0 -> _decode_deliver(raw, idx)
                               [] mti = 1 -> _decode_submit(raw, idx)
                               [] mti = 2 -> _decode_status_report(raw, idx)
                               [] OTHER -> ValueError("Unsupported MTI"))
        unhexed(raw) ==
            IF ~raw.ok THEN raw
            ELSE IF raw.value = <<>> THEN ValueError("Empty payload is not a valid TPDU")
            ELSE headed(raw.value, decode_smsc(raw.value, 0))
    IN  unhexed(IF data.type = "str" THEN unhexlify(data.data) ELSE Ok(data.data))

encode_sms(message) ==
    LET encoded(smsc, tpdu) == Chain(<<smsc, tpdu>>, smsc.value \o tpdu.value)
    IN  encoded(encode_smsc(message.smsc), _encode_tpdu(message.tpdu))

encode_sms_hex(message) ==
    LET hex(encoded) == IF encoded.ok THEN Ok(hexlify(encoded.value)) ELSE encoded
    IN  hex(encode_sms(message))

(***************************************************************************)
(* SpecCodec: the pure functions.  A call draws its argument from the      *)
(* bounded inputs; Apply runs the forward function (to_bytes, encode_...)  *)
(* on it and ApplyInverse the function that reads its output back          *)
(* (parse_sip_message, decode_...).                                        *)
(***************************************************************************)

\* the texts the SIP inputs are made of
SipText ==
    [REGISTER |-> Txt(<<"R", "E", "G", "I", "S", "T", "E", "R">>),
     INVITE |-> Txt(<<"I", "N", "V", "I", "T", "E">>),
     ACK |-> Txt(<<"A", "C", "K">>),
     URI |-> Txt(<<"s", "i", "p", ":", "a", "@", "b">>),
     OK |-> Txt(<<"O", "K">>),
     BODY |-> Txt(<<"B", "O", "D", "Y">>),
     hi |-> Txt(<<"h", "i">>),
     Via |-> <<Txt(<<"V", "i", "a">>), Txt(<<"x">>)>>,
     To |-> <<Txt(<<"T", "o">>), Txt(<<"s", "i", "p", ":", "b">>)>>,
     StaleLength |-> <<ContentLengthName, Txt(<<"9", "9">>)>>]

\* requests and responses with header names in normalized form (one header set
\* holds a stale Content-Length) and with bodies: none, ASCII, non-ASCII
\* (U+00E9), and one that holds a blank line
SipMessages ==
    LET headerSets == { <<>>, <<SipText.Via>>, <<SipText.Via, SipText.To>>,
                        <<SipText.StaleLength>> }
        bodies == { <<>>, SipText.BODY, <<233>>, SipText.hi, <<97, 13, 10, 13, 10, 98>> }
    IN  { SIPRequest_build(SipText.REGISTER, SipText.URI, h, b) :
            h \in headerSets, b \in bodies }
        \cup { SIPResponse_build(200, SipText.OK, h, b) : h \in headerSets, b \in bodies }

\* the longest digit string tried
MaxBcdLen == 3

\* digit strings over the legal symbols 0-9 * # A B C F
BcdInputs ==
    UNION { [1..n -> (48..57) \cup {42, 35, 65, 66, 67, 70}] : n \in 0..MaxBcdLen }

\* in-range timestamps: the ends of the 1970..2069 window and of each field,
\* values whose two digits differ and values whose two digits agree, UTC offsets
\* of 0, 1 h, 5 h 30 and 63 quarter hours of either sign
TsInputs ==
    { DateTime(y, mo, d, h, mi, sec, <<sg * q * 15>>) :
        y \in {1970, 1999, 2021, 2069}, mo \in {1, 12}, d \in {1, 22, 31},
        h \in {0, 23}, mi \in {0, 59}, sec \in {0, 33}, q \in {0, 4, 22, 63},
        sg \in {1, 0 - 1} }

\* the longest text over the sample alphabet
MaxGsmLen == 3

\* every one-character text over the basic and the extension table, and the
\* texts over a sample of them: @ (septet 0), A, a, LF, the entry at septet
\* 0x1B, and the extension characters { and the euro sign
GsmInputs ==
    [1..1 -> {GSM7_BASIC_TABLE[i] : i \in 1..Len(GSM7_BASIC_TABLE)}
             \cup {GSM7_EXTENDED_TABLE[k] : k \in DOMAIN GSM7_EXTENDED_TABLE}]
    \cup UNION { [1..n -> {64, 65, 97, 10, 27, 123, 8364}] : n \in 0..MaxGsmLen }

\* TPDUs of the three kinds, with and without an SMSC address, whose user data
\* matches the alphabet of the DCS: GSM-7 text without and with a header
\* (concatenation element 00 03 01 02 01), 8-bit data, UCS-2 text.  Timestamps:
\* one whose fields have two different digits each, one whose fields all have
\* two equal digits.  Validity period: none, relative (5 minutes, 2 days),
\* absolute.  Optional fields of a STATUS-REPORT: none, PID, DCS, PID and DCS,
\* user data without a DCS (alone and with a PID), DCS and user data, all three.
SmsMessages ==
    LET smscs == { <<>>, <<Address(Txt(<<"1", "2", "3">>), 1, 1)>> }
        address == Address(Txt(<<"1", "5", "5", "5", "5", "5", "5", "5", "5", "5", "5">>), 1, 1)
        stamps == { DateTime(2021, 3, 4, 5, 6, 7, <<60>>),
                    DateTime(2022, 11, 22, 11, 33, 44, <<0>>) }
        hi == Str(Txt(<<"h", "i">>))
        uds == { <<0, UserData(hi, "gsm7", <<>>)>>,
                 <<0, UserData(hi, "gsm7", <<<<0, 3, 1, 2, 1>>>>)>>,
                 <<4, UserData(Bytes(<<1, 255>>), "8bit", <<>>)>>,
                 <<8, UserData(Str(<<233, 9786>>), "ucs2", <<>>)>> }
        vps == { <<<<>>, "none">>, <<<<[seconds |-> 300]>>, "relative">>,
                 <<<<[seconds |-> 172800]>>, "relative">> }
               \cup { <<<<t>>, "absolute">> : t \in stamps }
        tails == { <<<<>>, <<>>, <<>>>>, <<<<0>>, <<>>, <<>>>>,
                   <<<<>>, <<DataCodingScheme(0)>>, <<>>>>,
                   <<<<65>>, <<DataCodingScheme(4)>>, <<>>>>,
                   <<<<>>, <<>>, <<UserData(hi, "gsm7", <<>>)>>>>,
                   <<<<0>>, <<>>, <<UserData(Bytes(<<1, 255>>), "8bit", <<>>)>>>>,
                   <<<<>>, <<DataCodingScheme(0)>>, <<UserData(hi, "gsm7", <<>>)>>>> }
                 \cup { <<<<127>>, <<DataCodingScheme(ud[1])>>, <<ud[2]>>>> : ud \in uds }
        delivers ==
            { [type |-> "SMSDeliver", originating_address |-> address, pid |-> 0,
               dcs |-> DataCodingScheme(ud[1]), service_center_time_stamp |-> t,
               user_data |-> ud[2], status_report_indication |-> f[1],
               more_messages |-> f[2], reply_path |-> f[3]] :
              ud \in uds, t \in stamps, f \in BOOLEAN \X BOOLEAN \X BOOLEAN }
        submits ==
            { [type |-> "SMSSubmit", message_reference |-> 7,
               destination_address |-> address, pid |-> 0,
               dcs |-> DataCodingScheme(ud[1]), user_data |-> ud[2],
               status_report_request |-> f[1], reject_duplicates |-> f[2],
               reply_path |-> f[3], validity_period |-> vp[1],
               validity_period_format |-> vp[2]] :
              ud \in uds, vp \in vps, f \in BOOLEAN \X BOOLEAN \X BOOLEAN }
        reports ==
            { [type |-> "SMSStatusReport", message_reference |-> 7,
               recipient_address |-> address, service_center_time_stamp |-> t,
               discharge_time |-> t, status |-> 0, pid |-> tail[1], dcs |-> tail[2],
               user_data |-> tail[3], more_messages |-> f[1],
               status_report_qualifier |-> f[2], reply_path |-> f[3]] :
              tail \in tails, t \in stamps, f \in BOOLEAN \X BOOLEAN \X BOOLEAN }
    IN  { SMSMessage(smsc, tpdu) :
            smsc \in smscs, tpdu \in delivers \cup submits \cup reports }

\* on-wire TPDUs written out octet by octet (timestamps in semi-octets, tens in
\* the low nibble), as lower-case and as upper-case hex text: a DELIVER "hi" from
\* +15555555555 stamped 2021-03-04 05:06:07+01:00 and one stamped 2022-11-22
\* 11:33:44+00:00, a SUBMIT "hi" without validity period and one valid for 4
\* days behind an SMSC address, a SUBMIT of UCS-2 text, a STATUS-REPORT
\* without the optional tail and one with TP-PI 7, PID, DCS and user data "hi"
SmsHexInputs ==
    LET address == <<11, 145, 81, 85, 85, 85, 85, 245>>
        stamp1 == <<18, 48, 64, 80, 96, 112, 64>>
        stamp2 == <<34, 17, 34, 17, 51, 68, 0>>
        hi == <<2, 232, 52>>
        wires ==
            { <<0, 4>> \o address \o <<0, 0>> \o stamp1 \o hi,
              <<0, 4>> \o address \o <<0, 0>> \o stamp2 \o hi,
              <<0, 1, 7>> \o address \o <<0, 0>> \o hi,
              <<3, 145, 33, 243, 17, 7>> \o address \o <<0, 0, 170>> \o hi,
              <<0, 33, 7>> \o address \o <<0, 8, 4, 0, 233, 38, 58>>,
              <<0, 6, 7>> \o address \o stamp2 \o stamp2 \o <<0>>,
              <<0, 6, 7>> \o address \o stamp2 \o stamp2 \o <<0, 7, 0, 0>> \o hi }
    IN  { Str(hexlify(w)) : w \in wires } \cup { Str(Upper(hexlify(w))) : w \in wires }

\* the calls <<function, argument>> of a function on the arguments
Call(fn, args) == {<<fn, a>> : a \in args}

\* every TP-VP byte; durations in seconds around the bucket limits (12 hours,
\* 24 hours, 30 days, 63 weeks), whole minutes and not; byte strings handed to
\* decode_sms: the on-wire TPDUs, each of their prefixes, each followed by extra
\* bytes, the SUBMITs with the VPF bits set to 01 (without and with the seven
\* octets of an enhanced validity period) and the TPDUs with the MTI set to 3;
\* receive buffers handed to _split_sip_message: a request line or nothing, a
\* Content-Length header whose value is a number (zero, the body's length,
\* signed, negative, huge), not a number or missing, and after the blank line
\* nothing, a body, or a body and the start of another message; buffers with
\* two Content-Length headers, the first in lower or upper case; every TP-DCS
\* byte; user data handed to encode_user_data with the DCS of its alphabet:
\* GSM-7 texts over a sample alphabet without a header, with an empty one, with
\* one of five bytes (48 header bits, not a whole number of septets) and one of
\* six (56 bits, eight septets); user data at and just past each size limit
\* (160 septets, 140 octets, a header of 140 bytes) in the three alphabets,
\* named by the UserData or left to the DCS; byte strings handed to
\* parse_sip_message: start lines (requests of one to four tokens, separated by
\* one space, two spaces or tabs; responses with a reason of one or two words,
\* without a reason, with a status code that is no number; a response in lower
\* case), followed by no header, by headers, by a header and a continuation
\* line (begun by a space, a tab or two spaces, with and without a colon in
\* it), by a line without a colon, by a continuation line alone, then the
\* blank line and a body or none; and strings without CRLF CRLF or with
\* nothing before it
CodecInputs ==
    LET minutes == (0..12) \cup (714..726) \cup (1434..1446)
                   \cup {2880, 2881, 43199, 43200, 43201, 50400, 50401,
                         635039, 635040, 635041, 700000}
        \* messages constructed directly, SIPMessage(start_line, headers, body):
        \* the caller's header names are stored as written
        stale == Txt(<<"9", "9">>)
        stored == { <<>>, << <<ContentLengthName, stale>> >>,
                    << <<Lower(ContentLengthName), stale>> >>,
                    << <<Upper(ContentLengthName), stale>>,
                       <<Lower(ContentLengthName), Txt(<<"7">>)>> >>,
                    << SipText.Via,
                       <<Txt(<<"c", "O", "n", "T", "e", "N", "t", "-", "l", "E", "n", "G", "t", "H">>),
                         Txt(<<"a", "b", "c">>)>> >> }
        bodies == { <<>>, SipText.hi, <<233>>, <<97, 13, 10, 13, 10, 98>>,
                    Txt(<<"C", "o", "n", "t", "e", "n", "t", "-", "L", "e", "n", "g", "t", "h", ":", " ", "1">>) }
        start_lines == { SipText.REGISTER \o <<32>> \o SipText.URI \o <<32>>
                             \o Txt(<<"S", "I", "P", "/", "2", ".", "0">>),
                         Txt(<<"S", "I", "P", "/", "2", ".", "0", " ", "2", "0", "0", " ", "O", "K">>) }
        tpdus == { unhexlify(h.data).value : h \in SmsHexInputs }
        extras == { <<0>>, <<1>>, <<2>>, <<4>>, <<255>>, <<0, 0>>, <<5, 0>>,
                    <<5, 0, 2, 232, 52>> }
        noVp == { w \in tpdus : w[1] = 0 /\ w[2] % 4 = 1 /\ (w[2] \div 8) % 4 = 0 }
        raws == UNION { { Take(w, k) : k \in 0..Len(w) } : w \in tpdus }
                \cup { w \o x : w \in tpdus, x \in extras }
                \cup { [w EXCEPT ![2] = @ + 8] : w \in noVp }
                \cup { Take([w EXCEPT ![2] = @ + 8], 13) \o <<1, 0, 0, 0, 0, 0, 0>>
                           \o From(w, 14) : w \in noVp }
                \cup { [w EXCEPT ![2] = (@ \div 4) * 4 + 3] : w \in { v \in tpdus : v[1] = 0 } }
        request_line == SipText.INVITE \o <<32>> \o SipText.URI \o <<32>>
                        \o Txt(<<"S", "I", "P", "/", "2", ".", "0">>) \o CRLF
        lengths == { <<48>>, <<52>>, <<43, 52>>, <<45, 52>>, <<45, 50, 51>>, <<45, 52, 55>>,
                     <<45, 49, 48, 48, 48>>, <<57, 57, 57, 57, 57>>, <<120>>, <<>> }
        buffers == { first \o ContentLengthName \o <<58, 32>> \o v \o CRLF \o CRLF \o rest :
                       first \in {<<>>, request_line}, v \in lengths,
                       rest \in {<<>>, SipText.BODY, SipText.BODY \o request_line} }
                   \cup { request_line, request_line \o CRLF, CRLF \o CRLF,
                          request_line \o CRLF \o SipText.BODY }
                   \cup { request_line \o name \o <<58>> \o v \o CRLF
                             \o ContentLengthName \o <<58, 32, 48>> \o CRLF \o CRLF
                             \o SipText.BODY \o request_line :
                           name \in {Lower(ContentLengthName), Upper(ContentLengthName)},
                           v \in {<<52>>, <<32, 52, 32>>, <<120>>} }
        run(c, n) == [i \in 1..n |-> c]
        headers == { <<>>, <<<<>>>>, <<<<0, 3, 1, 2, 1>>>>, <<<<36, 4, 1, 2, 3, 4>>>> }
        user_datas ==
            { <<UserData(Str(t), "gsm7", h), 0>> :
                t \in UNION { [1..n -> {64, 97, 27, 123}] : n \in 0..MaxGsmLen },
                h \in headers }
            \cup { <<UserData(Str(run(97, n)), e, <<>>), 0>> :
                      n \in {160, 161}, e \in {"gsm7", "7bit", ""} }
            \cup { <<UserData(Str(run(123, n)), "gsm7", <<>>), 0>> : n \in {80, 81} }
            \cup { <<UserData(Str(run(97, n)), "gsm7", <<<<0, 3, 1, 2, 1>>>>), 0>> :
                      n \in {153, 154} }
            \cup { <<UserData(d[3], IF named THEN d[1] ELSE "", <<run(0, n)>>), d[2]>> :
                      n \in {139, 140, 141}, named \in BOOLEAN,
                      d \in {<<"gsm7", 0, Str(<<>>)>>, <<"8bit", 4, Bytes(<<>>)>>,
                             <<"ucs2", 8, Str(<<>>)>>} }
            \cup { <<UserData(Bytes(run(255, n) \o x), e, h), 4>> :
                      n \in {134, 135}, x \in {run(1, k) : k \in 0..MaxGsmLen + 2},
                      e \in {"8bit", "8BIT", ""}, h \in {<<>>, <<<<0, 3, 1, 2, 1>>>>} }
            \cup { <<UserData(Str(run(233, n) \o x), e, h), 8>> :
                      n \in {67, 68}, x \in {<<>>, <<9786>>, <<128512>>, <<9786, 128512>>},
                      e \in {"ucs2", ""}, h \in {<<>>, <<<<0, 3, 1>>>>} }
        sp == <<32>>
        sip2 == Txt(<<"S", "I", "P", "/", "2", ".", "0">>)
        request == SipText.INVITE \o sp \o SipText.URI \o sp \o sip2
        starts == { request, SipText.INVITE \o sp \o SipText.URI, SipText.INVITE,
                    request \o sp \o SipText.hi,
                    SipText.INVITE \o <<9>> \o SipText.URI \o <<9>> \o sip2,
                    SipText.INVITE \o sp \o sp \o SipText.URI \o sp \o sip2,
                    sip2 \o sp \o FormatInt(200) \o sp \o SipText.OK,
                    sip2 \o sp \o FormatInt(404) \o sp \o SipText.hi \o sp \o SipText.OK,
                    sip2 \o sp \o SipText.hi \o sp \o SipText.OK,
                    sip2 \o sp \o FormatInt(200), sip2,
                    Lower(sip2) \o sp \o FormatInt(200) \o sp \o SipText.OK }
        line(h) == h[1] \o <<58, 32>> \o h[2]
        folded == { <<line(SipText.Via), ws \o c>> \o more :
                      ws \in {sp, <<9>>, sp \o sp},
                      c \in {SipText.hi, SipText.hi \o sp \o SipText.OK, line(SipText.To)},
                      more \in {<<>>, <<line(SipText.To)>>} }
        blocks == { <<>>, <<line(SipText.Via)>>, <<line(SipText.Via), line(SipText.To)>>,
                    <<SipText.hi>>, <<line(SipText.Via), SipText.hi>>, <<sp \o SipText.hi>> }
                  \cup folded
        datagrams == { Join(<<l>> \o b, CRLF) \o CRLF \o CRLF \o body :
                         l \in starts, b \in blocks, body \in {<<>>, SipText.BODY} }
                     \cup { <<>>, CRLF \o CRLF, request \o CRLF,
                            request \o CRLF \o line(SipText.Via) \o CRLF,
                            sp \o CRLF \o CRLF \o SipText.BODY }
    IN  Call("sip", SipMessages) \cup Call("bcd", BcdInputs)
        \cup Call("decode", { Bytes(b) : b \in raws })
        \cup Call("split", buffers)
        \cup Call("serialize", { SIPMessage(l, h, b) :
                                   l \in start_lines, h \in stored, b \in bodies })
        \cup Call("timestamp", TsInputs) \cup Call("gsm7", GsmInputs)
        \cup Call("sms", SmsMessages) \cup Call("sms_hex", SmsHexInputs)
        \cup Call("validity", 0..255) \cup Call("dcs", 0..255)
        \cup Call("ud", user_datas) \cup Call("parse", datagrams)
        \cup Call("duration", {[seconds |-> 60 * m + e] : m \in minutes, e \in {0, 1, 59}})

\* the forward function of a call
Forward(call) ==
    CASE call[1] \in {"sip", "serialize"} -> Ok(to_bytes(call[2]))
      [] call[1] = "bcd" -> encode_bcd_digits(call[2])
      [] call[1] = "timestamp" -> encode_timestamp(call[2])
      [] call[1] = "gsm7" -> encode_gsm7_text(call[2])
      [] call[1] = "sms" -> encode_sms(call[2])
      [] call[1] \in {"sms_hex", "decode"} -> decode_sms(call[2])
      [] call[1] = "split" -> Ok(_split_sip_message(call[2]))
      [] call[1] = "validity" -> Ok(decode_relative_validity(call[2]))
      [] call[1] = "dcs" -> Ok(DataCodingScheme(call[2]))
      [] call[1] = "parse" -> Ok(parse_sip_message(call[2]))
      [] call[1] = "ud" -> encode_user_data(call[2][1], DataCodingScheme(call[2][2]))
      [] call[1] = "duration" -> Ok(encode_relative_validity(call[2]))

\* the function that reads the forward function's output w back (for the
\* framer: the next turn of the framing loop, on the remainder; for a
\* DataCodingScheme: for_alphabet on its derived fields; for user data: what
\* the TPDU decoders do with UDL and the bytes that follow it, the UD behind
\* one octet and before two more, UDHI set exactly when there is a header; for
\* a parsed message: its serialization)
Backward(call, w) ==
    LET user_data(dcs, udhi) ==
            LET decoded(ud) ==
                    IF ~ud.ok THEN ud ELSE decode_user_data(ud.value[1], w[1], dcs, udhi)
            IN  decoded(extract_user_data_bytes(<<0>> \o w[2] \o <<255, 255>>, 1, w[1],
                                                dcs.alphabet, udhi))
        for_alphabet(alphabet, message_class, compressed) ==
            LET base == CASE alphabet = "gsm7" -> 0 [] alphabet = "8bit" -> 4
                          [] alphabet = "ucs2" -> 8
            IN  DataCodingScheme(base + (IF compressed THEN 32 ELSE 0)
                                 + (IF message_class # <<>>
                                    THEN 16 + (message_class[1] % 4) ELSE 0))
    IN
    CASE call[1] \in {"sip", "serialize"} -> parse_sip_message(w)
      [] call[1] = "bcd" -> decode_bcd_digits(w, Len(call[2]))
      [] call[1] = "timestamp" -> decode_timestamp(w)
      [] call[1] = "gsm7" -> decode_gsm7_text(w)
      [] call[1] = "sms" -> decode_sms(Bytes(w))
      [] call[1] = "sms_hex" -> encode_sms_hex(w)
      [] call[1] = "decode" -> encode_sms(w)
      [] call[1] = "split" -> _split_sip_message(w.remainder)
      [] call[1] = "validity" -> encode_relative_validity(w)
      [] call[1] = "duration" -> decode_relative_validity(w)
      [] call[1] = "dcs" -> Ok(for_alphabet(w.alphabet, w.message_class, w.compressed))
      [] call[1] = "parse" -> IF w.kind = "SIPParseError" THEN w ELSE Ok(to_bytes(w))
      [] call[1] = "ud" -> user_data(DataCodingScheme(call[2][2]), call[2][1].header # <<>>)

NetParked ==
    /\ max_message_size = 0 /\ conns = <<>> /\ handlers = <<>> /\ transport = <<>>
    /\ app = [pc |-> "parked"]

CodecInit ==
    /\ input \in CodecInputs
    /\ wire = <<>> /\ result = <<>> /\ step = "called"
    /\ NetParked

\* the forward function returns, or raises: the exception is the call's result
Apply ==
    /\ step = "called"
    /\ \E r \in {Forward(input)} :
        /\ wire' = (IF r.ok THEN r.value ELSE <<>>)
        /\ result' = (IF r.ok THEN result ELSE r)
        /\ step' = (IF r.ok THEN "applied" ELSE "raised")
    /\ UNCHANGED <<input, vars_net>>

ApplyInverse ==
    /\ step = "applied"
    /\ result' = Backward(input, wire)
    /\ step' = "returned"
    /\ UNCHANGED <<input, wire, vars_net>>

CodecNext == Apply \/ ApplyInverse

SpecCodec == CodecInit /\ [][CodecNext]_vars

\* the call of fn and of its inverse have both returned
RoundTrip(fn) == step = "returned" /\ input[1] = fn

\* C1: for every SIP message m (request or response) whose header names are in
\* normalized form, empty body included, parse_sip_message(m.to_bytes()) succeeds
\* and returns the start line, the headers (plus Content-Length) and the body of m.
C1_ParseInvertsToBytes ==
    RoundTrip("sip") =>
        /\ result.kind # "SIPParseError"
        /\ result.start_line = input[2].start_line
        /\ DictItems(result.headers) = DictItems(_with_content_length(input[2]))
        /\ result.body = input[2].body

\* C6: for every supported TPDU message m (DELIVER, SUBMIT or STATUS-REPORT, with
\* or without an SMSC address), decode_sms(encode_sms(m)) succeeds and equals m
\* in every field.
C6_SmsRoundTrip == RoundTrip("sms") => result.ok /\ result.value = input[2]

\* C7: for every valid on-wire hex string h of a supported TPDU, in upper or in
\* lower case, encode_sms_hex(decode_sms(h)) is h in lower case.
C7_HexRoundTrip == RoundTrip("sms_hex") => result.ok /\ result.value = Lower(input[2].data)

\* C8: for every timestamp with year, month, day, hour, minute and second in
\* range and a UTC offset of a whole number of quarter hours (0..63, either
\* sign), decode_timestamp(encode_timestamp(t)) has the six date/time fields
\* and the signed quarter-hour offset of t.
C8_TimestampRoundTrip ==
    RoundTrip("timestamp") => result.ok /\ result.value = input[2]

\* C9: for every string s whose characters all belong to the GSM 7-bit basic
\* table or the escape-extension table, decode_gsm7_text(encode_gsm7_text(s)) = s.
C9_Gsm7RoundTrip == RoundTrip("gsm7") => result = input[2]

\* C10: for every legal digit string d over 0-9 * # A B C F, of odd or even
\* length, decode_bcd_digits(encode_bcd_digits(d), len(d)) = d.
C10_BcdRoundTrip == RoundTrip("bcd") => result = input[2]

\* C11: for every TP-VP byte v in 0..255, encode_relative_validity(
\* decode_relative_validity(v)) = v, and decode_relative_validity(v) is not
\* above decode_relative_validity(v + 1), bucket boundaries included.
C11_ValidityByteRoundTrip ==
    /\ RoundTrip("validity") => result = input[2]
    /\ (step = "applied" /\ input[1] = "validity" /\ input[2] < 255) =>
           wire.seconds <= decode_relative_validity(input[2] + 1).seconds

\* the first byte of the 30-minute bucket came back from its duration
C11_Witness == RoundTrip("validity") /\ input[2] = 144 /\ result = 144

\* C12: for every duration d from 0 to 63 weeks, decode_relative_validity(
\* encode_relative_validity(d)) is the smallest duration a TP-VP byte can
\* represent that is at least d; a duration above 63 weeks encodes to 255.
C12_ValiditySmallestAtLeast ==
    RoundTrip("duration") =>
        IF input[2].seconds > 63 * 7 * 24 * 3600 THEN wire = 255
        ELSE /\ result.seconds >= input[2].seconds
             /\ \A v \in 0..255 :
                   decode_relative_validity(v).seconds >= input[2].seconds =>
                       decode_relative_validity(v).seconds >= result.seconds

\* C13: the serialized form of any SIPMessage holds exactly one Content-Length
\* header line, and its value is the decimal number of bytes of the UTF-8
\* encoding of the body (the bytes that follow the blank line), whatever
\* Content-Length, in whatever letter case, the caller stored in headers.
C13_OneContentLength ==
    (step = "applied" /\ input[1] = "serialize") =>
        LET lines == Split(wire, CRLF)
            blank == CHOOSE i \in 1..Len(lines) :
                         /\ lines[i] = <<>>
                         /\ \A j \in 1..(i - 1) : lines[j] # <<>>
            name(line) == Lower(Strip(SplitN(line, <<58>>, 1)[1]))
            found == SelectSeq(Take(lines, blank - 1),
                               LAMBDA line : name(line) = Lower(ContentLengthName))
            after == Find(wire, CRLF \o CRLF)
        IN  /\ Len(found) = 1
            /\ found[1] = ContentLengthName \o <<58, 32>>
                               \o FormatInt(Len(Utf8Encode(input[2].body)))
            /\ input[2].body # <<>> =>
                   Len(wire) - (after + 3) = Len(Utf8Encode(input[2].body))

\* a message stored with two Content-Length names, neither in normalized
\* case, and a two-byte body of one character was serialized
C13_Witness ==
    /\ step = "applied" /\ input[1] = "serialize"
    /\ Len(input[2].headers) = 2
    /\ input[2].headers[1][1] = Upper(ContentLengthName)
    /\ input[2].headers[2][1] = Lower(ContentLengthName)
    /\ input[2].body = <<233>>
    /\ Contains(wire, ContentLengthName \o <<58, 32, 50, 13, 10>>)

\* C21: decode_sms returns a message only when the SMSC header and the TPDU
\* decoder took up exactly all bytes of the input; an input made of a complete
\* DELIVER, SUBMIT or STATUS-REPORT (a byte string decode_sms accepts) and one
\* or more extra bytes after it raises ValueError; an input whose MTI is 3 and
\* the empty input raise ValueError
C21_TrailingBytesFail ==
    step # "called" /\ input[1] = "decode" =>
        LET raw == input[2].data
            smsc == decode_smsc(raw, 0)
            idx == smsc.value[2]
            tpdu == CASE raw[idx + 1] % 4 = 0 -> _decode_deliver(raw, idx)
                      [] raw[idx + 1] % 4 = 1 -> _decode_submit(raw, idx)
                      [] OTHER -> _decode_status_report(raw, idx)
            valueError == step = "raised" /\ result.error = "ValueError"
        IN  /\ step # "raised" =>
                smsc.ok /\ idx < Len(raw) /\ tpdu.ok /\ tpdu.value[2] = Len(raw)
            /\ (\E k \in 1..(Len(raw) - 1) : decode_sms(Bytes(Take(raw, k))).ok)
                   => valueError
            /\ raw = <<>> => valueError
            /\ (raw # <<>> /\ smsc.ok /\ idx < Len(raw) /\ raw[idx + 1] % 4 = 3)
                   => valueError

C22_OnlyValueErrors ==
    step = "raised" /\ input[1] = "decode" =>
        result.error \in {"ValueError", "UnicodeDecodeError", "binascii.Error"}

\* C23: decode_sms of a SUBMIT whose first octet has the VPF bits 01 (enhanced
\* validity period) raises ValueError, it never returns a message
C23_EnhancedValidityRejected ==
    LET raw == input[2].data
        smsc == decode_smsc(raw, 0)
        first_octet == raw[smsc.value[2] + 1]
    IN  (/\ step # "called" /\ input[1] = "decode" /\ raw # <<>>
         /\ smsc.ok /\ smsc.value[2] < Len(raw)
         /\ first_octet % 4 = 1 /\ (first_octet \div 8) % 4 = 1)
        => step = "raised" /\ result.error = "ValueError"

\* C25: every call of _split_sip_message that returns a message (not None)
\* returns a non-empty message and a remainder strictly shorter than the buffer
\* it was given, whatever the Content-Length value in the buffer (zero,
\* negative, huge, not a number): so every turn of the framing loop
\* "while True: message_bytes, buffer = _split_sip_message(buffer)" shortens the
\* buffer and the loop ends
C25_SplitShortensBuffer ==
    /\ (step # "called" /\ input[1] = "split" /\ wire.found) =>
        wire.message # <<>> /\ Len(wire.remainder) < Len(input[2])
    /\ (RoundTrip("split") /\ result.found) =>
        result.message # <<>> /\ Len(result.remainder) < Len(wire.remainder)

\* C31: _split_sip_message reports incomplete exactly when the buffer has no
\* CRLF CRLF or fewer than header_end + Content-Length bytes, and then leaves
\* the buffer as it is; a message it returns has exactly header_end +
\* Content-Length bytes and, followed by the remainder, is the buffer; the
\* Content-Length is the one of the first header line that matches (whatever
\* its case), 0 when there is none or it is no number.
C31_SplitFrame ==
    (step # "called" /\ input[1] = "split") =>
        LET buffer == input[2]
            delimiter == CRLF \o CRLF
            header_end == (Find(buffer, delimiter) - 1) + Len(delimiter)
            content_length == _content_length_from_headers(Take(buffer, header_end))
        IN  /\ ~wire.found =>
                  /\ wire.remainder = buffer
                  /\ \/ ~Contains(buffer, delimiter)
                     \/ Len(buffer) < header_end + content_length
            /\ wire.found =>
                  /\ Contains(buffer, delimiter)
                  /\ Len(wire.message) = header_end + content_length
                  /\ wire.message \o wire.remainder = buffer

\* C34: for every raw TP-DCS byte, DataCodingScheme keeps the byte and derives:
\* in groups 00 and 01 the alphabet from bits 3-2 (0 gsm7, 1 8bit, 2 ucs2,
\* 3 gsm7), compressed from bit 5 and message_class = bits 1-0 whenever bit 4
\* is set (None otherwise); 0xE0..0xEF ucs2 without class; 0xF0..0xFF gsm7
\* with class bits 1-0; 0xC0..0xCF 8bit without class; every other byte gsm7
\* without class.
C34_DcsFields ==
    (step # "called" /\ input[1] = "dcs") =>
        LET raw == input[2]
            selector == (raw \div 4) % 4
            high == raw \div 16
        IN  /\ wire.raw = raw
            /\ raw < 128 =>
                  /\ wire.alphabet = (CASE selector = 1 -> "8bit" [] selector = 2 -> "ucs2"
                                        [] OTHER -> "gsm7")
                  /\ wire.compressed = ((raw \div 32) % 2 = 1)
                  /\ wire.message_class = (IF (raw \div 16) % 2 = 1 THEN <<raw % 4>> ELSE <<>>)
            /\ high = 14 => wire.alphabet = "ucs2" /\ wire.message_class = <<>>
            /\ high = 15 => wire.alphabet = "gsm7" /\ wire.message_class = <<raw % 4>>
            /\ high = 12 => wire.alphabet = "8bit" /\ wire.message_class = <<>>
            /\ high \in {8, 9, 10, 11, 13} =>
                  wire.alphabet = "gsm7" /\ wire.message_class = <<>>
            /\ raw >= 128 => ~wire.compressed

\* C35: for GSM-7 user data with a header h and a text t that encode_user_data
\* accepts, UDL is the number of septets of t plus ceil((len(h) + 1) * 8 / 7),
\* the septets of t start at bit (len(h) + 1) * 8 of the UD bytes,
\* extract_user_data_bytes with UDHI set takes exactly the UD bytes, and
\* decode_user_data returns the header h and the text t.
C35_Gsm7WithHeader ==
    (/\ step \in {"applied", "returned"} /\ input[1] = "ud"
     /\ input[2][2] = 0 /\ input[2][1].encoding = "gsm7" /\ input[2][1].header # <<>>) =>
        LET h == input[2][1].header[1]
            t == input[2][1].payload.data
            septets == encode_gsm7_text(t).value
            header_bits == (Len(h) + 1) * 8
        IN  /\ wire[1] = Len(septets) + ((header_bits + 6) \div 7)
            /\ SubSeq(bytes_to_bits_lsb(wire[2]), header_bits + 1,
                      header_bits + 7 * Len(septets)) = septets_to_bits(septets)
            /\ extract_user_data_bytes(<<0>> \o wire[2] \o <<255, 255>>, 1, wire[1],
                                       "gsm7", TRUE)
                 = Ok(<<wire[2], 1 + Len(wire[2])>>)
            /\ step = "returned" =>
                  /\ result.ok
                  /\ result.value.header = <<h>>
                  /\ result.value.payload = Str(t)

\* C36: encode_user_data raises ValueError, and returns nothing, when the
\* header is longer than 140 bytes, when the UDL of GSM-7 user data exceeds 160
\* septets, and when the UD is longer than 140 octets in any alphabet; so every
\* (UDL, UD) it returns has at most 140 octets of UD and a UDL of at most 160,
\* which is the number of octets of the UD for 8-bit and UCS-2 user data.
C36_UserDataLimits ==
    (step # "called" /\ input[1] = "ud") =>
        LET user_data == input[2][1]
            named == IF user_data.encoding # "" THEN user_data.encoding
                     ELSE DataCodingScheme(input[2][2]).alphabet
            encoding == CASE named = "8BIT" -> "8bit" [] named = "7bit" -> "gsm7"
                          [] OTHER -> named
            header == IF user_data.header = <<>> THEN <<>>
                      ELSE <<Len(user_data.header[1])>> \o user_data.header[1]
            code_units == Len(user_data.payload.data)
                          + Cardinality({i \in DOMAIN user_data.payload.data :
                                            user_data.payload.data[i] > 65535})
            septets == encode_gsm7_text(user_data.payload.data)
            too_large ==
                \/ Len(header) > 141
                \/ /\ encoding = "gsm7" /\ septets.ok
                   /\ Len(septets.value) + ((8 * Len(header) + 6) \div 7) > 160
                \/ encoding = "8bit" /\ Len(header) + code_units > 140
                \/ encoding = "ucs2" /\ Len(header) + 2 * code_units > 140
        IN  /\ too_large => step = "raised" /\ result.error = "ValueError" /\ wire = <<>>
            /\ step # "raised" =>
                  /\ ~too_large
                  /\ Len(wire[2]) <= 140 /\ wire[1] <= 160
                  /\ encoding \in {"8bit", "ucs2"} => wire[1] = Len(wire[2])

\* UCS-2 text of 142 octets without a header was refused
C36_Witness ==
    /\ input[1] = "ud" /\ step = "raised" /\ result.error = "ValueError"
    /\ input[2][2] = 8 /\ Len(input[2][1].payload.data) = 70
    /\ input[2][1].header = <<>>

\* C37: in parse_sip_message a header line that begins with a space or a tab
\* is a continuation line: its stripped text is appended, after a single
\* space, to the value of the header before it; it makes no header of its own
\* and raises no error.  (Stated for well-formed messages: a start line of
\* three tokens, the second a number in a response, every other line
\* "name: value", names all different.)
C37_ContinuationFolded ==
    (step # "called" /\ input[1] = "parse"
     /\ Contains(input[2], CRLF \o CRLF)) =>
        LET lines == Split(SplitN(input[2], CRLF \o CRLF, 1)[1], CRLF)
            continues(i) == i > 2 /\ lines[i] # <<>> /\ lines[i][1] \in {32, 9}
            heads == {i \in 2..Len(lines) : ~continues(i)}
            name(i) == _normalize_header_name(Strip(SplitN(lines[i], <<58>>, 1)[1]))
            \* the lines of the header that begins at line i
            upto(i) == MinOf({j \in heads : j > i} \cup {Len(lines) + 1}) - 1
            value(i) ==
                Join(<<Strip(SplitN(lines[i], <<58>>, 1)[2])>>
                     \o [k \in 1..(upto(i) - i) |-> Strip(lines[i + k])], <<32>>)
        IN  (/\ \E i \in 1..Len(lines) : continues(i)
             /\ Len(SelectSeq(Split(lines[1], <<32>>), LAMBDA p : p # <<>>)) = 3
             /\ ~Contains(lines[1], <<9>>) /\ ~Contains(lines[1], <<32, 32>>)
             /\ StartsWith(Upper(lines[1]), Txt(<<"S", "I", "P", "/">>)) =>
                    ParseInt(Split(lines[1], <<32>>)[2]).ok
             /\ \A i \in heads : Contains(lines[i], <<58>>) /\ lines[i][1] \notin {32, 9}
             /\ \A i, j \in heads : name(i) = name(j) => i = j) =>
                /\ wire.kind # "SIPParseError"
                /\ DictItems(wire.headers) = { <<name(i), value(i)>> : i \in heads }

\* C38: parse_sip_message reads a start line that begins with SIP/ (in either
\* case) as a response (version, integer status code, reason, which may
\* contain spaces) and any other start line as a request, which must be
\* exactly three tokens separated by whitespace (method, uri, version); it
\* fails with SIPParseError for a request line of fewer or more tokens, a
\* status code that is no integer, a header line without a colon, a missing
\* CRLF CRLF and an empty message.
C38_StartLineAndErrors ==
    (step # "called" /\ input[1] = "parse") =>
        LET text == input[2]
            raw == SelectSeq(Split(SplitN(text, CRLF \o CRLF, 1)[1], CRLF),
                             LAMBDA l : Strip(l) # <<>>)
            lines == [i \in 1..Len(raw) |-> Strip(raw[i])]
            start_line == lines[1]
            \* the tokens of a line: its maximal runs of characters that are no
            \* whitespace
            begins(l) == {i \in 1..Len(l) : ~IsSpace(l[i]) /\ (i = 1 \/ IsSpace(l[i - 1]))}
            ends(l, i) == MinOf({j \in i..Len(l) : j = Len(l) \/ IsSpace(l[j + 1])})
            token(l, n) ==
                LET i == CHOOSE b \in begins(l) : Cardinality({a \in begins(l) : a <= b}) = n
                IN  SubSeq(l, i, ends(l, i))
            tokens == Cardinality(begins(start_line))
            response == StartsWith(Upper(start_line), Txt(<<"S", "I", "P", "/">>))
            failed == wire.kind = "SIPParseError"
            bad_header == \E i \in 2..Len(lines) :
                              ~Contains(lines[i], <<58>>) /\ raw[i][1] \notin {32, 9}
            bad_start == IF response THEN tokens < 3 \/ ~ParseInt(token(start_line, 2)).ok
                         ELSE tokens # 3
        IN  IF ~Contains(text, CRLF \o CRLF) \/ lines = <<>> THEN failed
            ELSE /\ (bad_header \/ bad_start) => failed
                 /\ (~failed /\ response) =>
                       /\ wire.kind = "SIPResponse"
                       /\ wire.version = token(start_line, 1)
                       /\ wire.status_code = ParseInt(token(start_line, 2)).value
                       /\ wire.reason = From(start_line, CHOOSE b \in begins(start_line) :
                                                 Cardinality({a \in begins(start_line) : a <= b}) = 3)
                 /\ (~failed /\ ~response) =>
                       /\ wire.kind = "SIPRequest"
                       /\ wire.method = token(start_line, 1)
                       /\ wire.uri = token(start_line, 2)
                       /\ wire.version = token(start_line, 3)
                 /\ (failed /\ ~bad_header
                     /\ \A i \in 2..Len(lines) : Contains(lines[i], <<58>>)) => bad_start

(***************************************************************************)
(* SpecTransport: the read loops of TCP connections                        *)
(* (TCPServerTransport._serve_client, TCPClientTransport._read_loop) fed   *)
(* streams of serialized messages, and the dispatch of every message to    *)
(* the handlers of SIPServer / SIPClient                                   *)
(***************************************************************************)

\* the longest run of messages a peer sends
MaxFrmMsgs == 2
\* the most handlers an application registers
MaxHandlers == 2
\* the size of a read where reads are not cut at every byte
ChunkSize == 40
\* reader.read(4096)
READ_SIZE == 4096
\* max_message_size: the constructor's default, and a small one
MAX_MESSAGE_SIZE == 65535
SmallMaxMessageSize == 64

\* what the peer serializes: S5's INVITE with a body, a body-less ACK, a REGISTER
FrmMessages ==
    { SIPRequest_build(SipText.INVITE, SipText.URI, <<>>, SipText.BODY),
      SIPRequest_build(SipText.ACK, SipText.URI, <<>>, <<>>),
      SIPRequest_build(SipText.REGISTER, SipText.URI, <<SipText.Via>>, SipText.hi) }

FrmRuns == UNION { [1..n -> FrmMessages] : n \in 1..MaxFrmMsgs }

\* a connection as its read loop starts: the messages the remote end writes
\* (msgs, each serialized in written, all in stream, of which pos bytes are
\* read; eof: the remote end
\* has closed), the sizes a read may return, the loop's buffer and position pc
\* ("created": the task has not run yet, "read": await reader.read, "split":
\* the inner loop, "handler": await handler(...), "done"), the message in dispatch (the k-th framed, the
\* snapshot of the handlers, the index i of the one running), what happened so
\* far (log), whether the task was cancelled or closed its writer, how often
\* writer.close() was called (closes), and the connection at the other end
\* when that end is modelled too (peer, else 0)
Connection(side, msgs, eof, sizes) ==
    [side |-> side, peer |-> 0, msgs |-> msgs,
     written |-> [i \in 1..Len(msgs) |-> to_bytes(msgs[i])],
     stream |-> Flatten([i \in 1..Len(msgs) |-> to_bytes(msgs[i])]),
     eof |-> eof, sizes |-> sizes, pos |-> 0, buffer |-> <<>>, pc |-> "read",
     k |-> 0, snapshot |-> <<>>, i |-> 0, log |-> <<>>,
     cancel |-> FALSE, writer |-> "open", closes |-> 0]

\* the transports once started: the client connected with its reader task
\* running, the server listening with one task per server connection
Started(cs) ==
    [connection |-> TRUE, reader |-> TRUE, writer |-> TRUE, reader_task |-> TRUE,
     server |-> TRUE, client_tasks |-> {c \in DOMAIN cs : cs[c].side = "server"}]

TransportInit ==
    /\ \/ /\ \E run \in FrmRuns :
                \/ /\ max_message_size = MAX_MESSAGE_SIZE
                   /\ conns = <<Connection("server", run, TRUE, 1..READ_SIZE)>>
                \/ /\ max_message_size = SmallMaxMessageSize
                   /\ conns = <<Connection("server", run, TRUE, {ChunkSize})>>
          /\ app = [pc |-> "serve", register |-> 0]
       \/ /\ max_message_size = MAX_MESSAGE_SIZE
          /\ \E m \in FrmMessages, n \in FrmMessages :
                /\ m.body # <<>> /\ n.body # <<>> /\ m # n
                /\ conns \in { <<Connection("server", <<m, n>>, TRUE, {ChunkSize}),
                                Connection("server", <<n>>, TRUE, {ChunkSize})>>,
                               <<Connection("client", <<m, n>>, TRUE, {ChunkSize})>> }
          /\ app = [pc |-> "serve", register |-> MaxHandlers]
       \* a small max_message_size: two server connections of which the first
       \* will exceed it, or a client whose peer sends a message larger than
       \* it (two reads long, or ten bytes more) and then a message that fits
       \/ /\ max_message_size = SmallMaxMessageSize
          /\ \E m \in FrmMessages, n \in FrmMessages, extra \in {0, 10} :
             \E long \in {SIPRequest_build(SipText.INVITE, SipText.URI, <<>>,
                                            [i \in 1..(2 * ChunkSize - 46 + extra) |-> 120])} :
                /\ m.body # <<>> /\ n.body # <<>> /\ m # n
                /\ conns \in { <<Connection("server", <<m, n>>, TRUE, {ChunkSize}),
                                Connection("server", <<n>>, TRUE, {ChunkSize})>>,
                               <<Connection("client", <<long, n>>, TRUE, {ChunkSize})>> }
          /\ app = [pc |-> "serve", register |-> 1]
       \* a peer that sends a message that will not parse (its start line is
       \* one word) and then a run of messages
       \/ /\ max_message_size = MAX_MESSAGE_SIZE
          /\ \E run \in FrmRuns, side \in {"server", "client"} :
                conns = <<Connection(side, <<SIPMessage(SipText.OK, <<>>, SipText.hi)>> \o run,
                                     TRUE, {ChunkSize})>>
          /\ app = [pc |-> "serve", register |-> 1]
    /\ handlers = [server |-> <<>>, client |-> <<>>]
    /\ transport = Started(conns)
    /\ input = <<>> /\ wire = <<>> /\ result = <<>> /\ step = "parked"

\* as if deliver were started without being awaited: the inner loop goes on
\* while a handler is still running
AtUnawaited(c, where) ==
    conns[c].pc = where \/ (where = "split" /\ conns[c].pc = "handler")

\* where the read loop of connection c stands
At(c, where) == conns[c].pc = where

\* what reader.read(4096) may return: one of the sizes of the connection that
\* fits what has arrived, else all that has arrived
ReadSizes(conn) ==
    LET arrived == MinOf({Len(conn.stream) - conn.pos, READ_SIZE})
        fit == {n \in 1..arrived : n \in conn.sizes}
    IN  IF fit = {} THEN {n \in {arrived} : n > 0} ELSE fit

\* as if the end of one connection's task closed every connection
CloseEvery(cs, c) ==
    [j \in DOMAIN cs |-> [cs[j] EXCEPT !.pc = "done", !.writer = "closed"]]

\* writer.close() of connection c as its task ends: the other end will read EOF
Close(cs, c) ==
    LET closed == [cs EXCEPT ![c] = [@ EXCEPT !.pc = "done", !.writer = "closed",
                                              !.closes = @ + 1]]
    IN  IF cs[c].peer = 0 THEN closed
        ELSE [closed EXCEPT ![cs[c].peer] = [@ EXCEPT !.eof = TRUE]]

\* connection.send(message) on connection c, for each message of ms (none or
\* one): _coerce_to_bytes, writer.write; the bytes arrive at the other end
Write(cs, c, ms) ==
    IF ms = <<>> \/ cs[c].peer = 0 THEN cs
    ELSE [cs EXCEPT ![cs[c].peer] =
             [@ EXCEPT !.msgs = @ \o ms,
                       !.written = Append(@, to_bytes(ms[1])),
                       !.stream = @ \o to_bytes(ms[1])]]

\* what a handler sends while it runs: the echo handler answers a REGISTER
\* with a 200 OK, the others send nothing
Reply(h, message) ==
    IF h[2] = "echo" /\ message.kind = "SIPRequest" /\ message.method = SipText.REGISTER
    THEN <<SIPResponse_build(200, SipText.OK, <<>>, app.reply)>>
    ELSE <<>>

\* the message in dispatch on a connection: the one of the last deliver
Dispatched(conn) ==
    LET at == {p \in DOMAIN conn.log : conn.log[p][1] = "deliver"}
    IN  conn.log[MaxOf(at)][3]

\* the connection of self._reader and self._writer: the one start opened last
Current(cs) == MaxOf({0} \cup {c \in DOMAIN cs : cs[c].side = "client"})

\* TCPClientTransport._shutdown, the references: nothing to do when reader,
\* writer and connection are all None
_shutdown(t) ==
    IF ~t.reader /\ ~t.writer /\ ~t.connection THEN t
    ELSE [t EXCEPT !.connection = FALSE, !.reader = FALSE, !.writer = FALSE,
                   !.reader_task = FALSE]

\* TCPClientTransport._shutdown, writer.close(): the writer is the one of the
\* connection opened last; both ends of that connection will read EOF
CloseWriter(cs, t) ==
    IF ~t.writer THEN cs
    ELSE [Close(cs, Current(cs)) EXCEPT ![Current(cs)] =
             [@ EXCEPT !.pc = cs[Current(cs)].pc, !.eof = TRUE]]

\* data = await reader.read(4096) returns n >= 1 bytes; buffer += data; the
\* oversize check: the server breaks out and closes, the client empties its
\* buffer and reads on (the log keeps <<"oversize", k, bytes read so far>>)
ReadChunk(c) ==
    /\ At(c, "read") /\ ~conns[c].cancel
    /\ \E n \in ReadSizes(conns[c]) :
       \E buffer \in {conns[c].buffer
                      \o SubSeq(conns[c].stream, conns[c].pos + 1, conns[c].pos + n)} :
          /\ conns' =
                IF Len(buffer) <= max_message_size
                THEN [conns EXCEPT ![c] =
                         [@ EXCEPT !.pos = @ + n, !.buffer = buffer, !.pc = "split"]]
                ELSE IF conns[c].side = "server"
                THEN Close([conns EXCEPT ![c] =
                               [@ EXCEPT !.pos = @ + n, !.buffer = buffer,
                                         !.log = Append(@, <<"oversize", conns[c].k,
                                                             conns[c].pos + n>>)]], c)
                ELSE [conns EXCEPT ![c] =
                         [@ EXCEPT !.pos = @ + n, !.buffer = <<>>,
                                   !.log = Append(@, <<"oversize", conns[c].k,
                                                       conns[c].pos + n>>)]]
          /\ transport' =
                IF Len(buffer) > max_message_size /\ conns[c].side = "server"
                THEN [transport EXCEPT !.client_tasks = @ \ {c}] ELSE transport
    /\ UNCHANGED <<max_message_size, handlers, app, vars_fn>>

\* as if there were no try/except around the handler: an exception ends the loop
NextHandlerUncaught(snapshot, i, raised) ==
    IF raised THEN 0 ELSE IF i < Len(snapshot) THEN i + 1 ELSE 0

\* for handler in list(self._handlers): the handler after the i-th of the
\* snapshot, 0 when the loop is over; an Exception of the i-th is caught and
\* logged (except Exception)
NextHandler(snapshot, i, raised) == IF i < Len(snapshot) THEN i + 1 ELSE 0

\* as if SIPParseError were not caught: the task ends and closes its writer
AfterParseErrorUncaught(conn, r) ==
    [conn EXCEPT !.buffer = r.remainder, !.k = @ + 1, !.pc = "done", !.writer = "closed",
                 !.log = Append(@, <<"framed", conn.k + 1, r.message>>)]

\* except SIPParseError: the framed piece is logged and dropped, and the inner
\* loop goes on with the remainder (continue)
AfterParseError(conn, r) ==
    [conn EXCEPT !.buffer = r.remainder, !.k = @ + 1,
                 !.log = Append(@, <<"framed", conn.k + 1, r.message>>)]

\* one pass of the inner loop: _split_sip_message, parse_sip_message, and
\* deliver -> callback -> _handle_incoming up to the first handler's await
SplitMessage(c) ==
    /\ At(c, "split")
    /\ \E r \in {_split_sip_message(conns[c].buffer)} :
       \E message \in {IF r.found THEN parse_sip_message(r.message)
                       ELSE SIPParseError("")} :
       \E hs \in {handlers[conns[c].side]} :
          conns' = [conns EXCEPT ![c] =
              IF ~r.found THEN [@ EXCEPT !.pc = "read"]
              ELSE IF message.kind = "SIPParseError"
              THEN AfterParseError(@, r)
              ELSE IF hs = <<>>
              THEN [@ EXCEPT !.buffer = r.remainder, !.k = @ + 1,
                             !.log = @ \o << <<"framed", conns[c].k + 1, r.message>>,
                                            <<"deliver", conns[c].k + 1, message, hs>> >>]
              ELSE [@ EXCEPT !.buffer = r.remainder, !.k = @ + 1,
                             !.log = @ \o << <<"framed", conns[c].k + 1, r.message>>,
                                            <<"deliver", conns[c].k + 1, message, hs>>,
                                            <<"start", conns[c].k + 1, hs[1][1]>> >>,
                             !.snapshot = hs, !.i = 1, !.pc = "handler"]]
    /\ UNCHANGED <<max_message_size, handlers, transport, app, vars_fn>>

\* the handler running for connection c sends what it sends and returns, or
\* raises (a handler is <<ordinal of its registration, what it does>>);
\* _handle_incoming goes on
\* to the next handler of its snapshot, or returns to the inner loop
HandlerDone(c) ==
    /\ At(c, "handler") /\ ~conns[c].cancel
    /\ \E h \in {conns[c].snapshot[conns[c].i]} :
       \E next \in {NextHandler(conns[c].snapshot, conns[c].i, h[2] = "raises")} :
          conns' = [Write(conns, c, Reply(h, Dispatched(conns[c]))) EXCEPT ![c] =
              [@ EXCEPT !.log = @ \o << <<IF h[2] = "raises" THEN "raised" ELSE "returned",
                                          conns[c].k, h[1]>> >>
                                  \o (IF next = 0 THEN <<>>
                                      ELSE << <<"start", conns[c].k,
                                                conns[c].snapshot[next][1]>> >>),
                         !.i = next,
                         !.pc = IF next = 0 THEN "split" ELSE "handler"]]
    /\ UNCHANGED <<max_message_size, handlers, transport, app, vars_fn>>

\* the remote end has closed and everything it wrote is read: read returns
\* b"", the loop breaks; the server task closes its writer, the client task
\* runs _shutdown
ReadEof(c) ==
    /\ At(c, "read") /\ ~conns[c].cancel
    /\ conns[c].eof /\ conns[c].pos = Len(conns[c].stream)
    /\ conns' = IF conns[c].side = "server" THEN Close(conns, c)
                ELSE [CloseWriter(conns, transport) EXCEPT ![c] = [@ EXCEPT !.pc = "done"]]
    /\ transport' = IF conns[c].side = "server"
                    THEN [transport EXCEPT !.client_tasks = @ \ {c}]
                    ELSE _shutdown(transport)
    /\ UNCHANGED <<max_message_size, handlers, app, vars_fn>>

\* SIPServer.register_handler / SIPClient.register_handler, at any time
register_handler(side, does) ==
    /\ app.pc = "serve" /\ app.register > 0
    /\ handlers' = [handlers EXCEPT ![side] = Append(@, <<Len(@) + 1, does>>)]
    /\ app' = [app EXCEPT !.register = @ - 1]
    /\ UNCHANGED <<max_message_size, conns, transport, vars_fn>>

TransportNext ==
    \/ \E c \in DOMAIN conns : ReadChunk(c)
    \/ \E c \in DOMAIN conns : SplitMessage(c)
    \/ \E c \in DOMAIN conns : HandlerDone(c)
    \/ \E c \in DOMAIN conns : ReadEof(c)
    \/ \E c \in DOMAIN conns, does \in {"returns", "raises"} :
          register_handler(conns[c].side, does)

SpecTransport == TransportInit /\ [][TransportNext]_vars

\* the byte strings the framer of a connection has emitted so far, in order
Framed(conn) ==
    LET at == SelectSeq([p \in 1..Len(conn.log) |-> p],
                        LAMBDA p : conn.log[p][1] = "framed")
    IN  [j \in 1..Len(at) |-> conn.log[at[j]][3]]

\* C2: serialized messages (with or without bodies), concatenated and read at
\* arbitrary chunk boundaries, come out of the framer as exactly the original
\* messages, in order, each once, with an empty buffer after the last chunk.
C2_FramerEmitsOriginals ==
    \A c \in DOMAIN conns :
        (/\ max_message_size = MAX_MESSAGE_SIZE
         /\ conns[c].pos = Len(conns[c].stream)
         /\ At(c, "read")) =>
            /\ Framed(conns[c]) = conns[c].written
            /\ conns[c].buffer = <<>>

\* the entries of a connection's log whose tag is one of tags, in order
Events(conn, tags) == SelectSeq(conn.log, LAMBDA e : e[1] \in tags)

\* the registration ordinals of the handlers invoked for the k-th message of a
\* connection, in order of invocation
Invoked(conn, k) ==
    LET starts == SelectSeq(conn.log, LAMBDA e : e[1] = "start" /\ e[2] = k)
    IN  [j \in 1..Len(starts) |-> starts[j][3]]

\* C4: for every message delivered to SIPServer or SIPClient, the handlers
\* invoked are the handlers registered at the time of dispatch, each once, in
\* registration order, whether or not one of them raised an Exception (while
\* the dispatch runs: the first of them); a read loop ends only at end of
\* stream or on an oversize buffer, never because a handler raised.
C4_EveryHandlerOnceInOrder ==
    \A c \in DOMAIN conns :
        /\ \A d \in {p \in DOMAIN conns[c].log : conns[c].log[p][1] = "deliver"} :
              LET delivery(k, registered, invoked) ==
                      /\ Len(invoked) <= Len(registered)
                      /\ \A j \in DOMAIN invoked : invoked[j] = registered[j][1]
                      /\ (conns[c].k > k \/ ~At(c, "handler")) =>
                              Len(invoked) = Len(registered)
              IN  delivery(conns[c].log[d][2], conns[c].log[d][4],
                           Invoked(conns[c], conns[c].log[d][2]))
        /\ At(c, "done") =>
              \/ conns[c].pos = Len(conns[c].stream)
              \/ Len(conns[c].buffer) > max_message_size

\* a handler raised, the handler registered after it was invoked for the same
\* message, and the next message of the connection was dispatched too
C4_Witness ==
    \E c \in DOMAIN conns :
        /\ Events(conns[c], {"raised"}) # <<>>
        /\ \E p, q, r \in DOMAIN conns[c].log :
              /\ p < q /\ q < r
              /\ conns[c].log[p] = <<"raised", 1, 1>>
              /\ conns[c].log[q] = <<"start", 1, 2>>
              /\ conns[c].log[r][1] = "start" /\ conns[c].log[r][2] = 2

\* C5: on every connection the framed messages are consecutive pieces of the
\* wire, dispatched in that order (the messages the peer wrote, in its order,
\* when each has a body and no buffer was dropped for its size), and no
\* handler is invoked while another handler of
\* the same connection, for this message or an earlier one, has not completed;
\* the message just dispatched is the parse of the piece just framed;
\* connections advance independently of each other.
C5_PerConnectionOrder ==
    \A c \in DOMAIN conns :
        LET ordered(log, framed) ==
                /\ \A p, q \in DOMAIN log : p < q => log[p][2] <= log[q][2]
                /\ \A q \in DOMAIN log :
                      log[q][1] = "start" =>
                          Cardinality({p \in 1..(q - 1) : log[p][1] = "start"})
                              = Cardinality({p \in 1..(q - 1) :
                                                log[p][1] \in {"returned", "raised"}})
                /\ Events(conns[c], {"oversize"}) = <<>> =>
                       /\ Flatten(framed) \o conns[c].buffer
                              = Take(conns[c].stream, conns[c].pos)
                       /\ (\A j \in DOMAIN conns[c].msgs : conns[c].msgs[j].body # <<>>) =>
                              \A j \in DOMAIN framed : framed[j] = conns[c].written[j]
                /\ \A p \in DOMAIN log :
                       (p >= Len(log) - 1 /\ log[p][1] = "deliver") =>
                           log[p][3] = parse_sip_message(framed[log[p][2]])
        IN  ordered(conns[c].log, Framed(conns[c]))

\* two connections each have a handler running, the first one for its second
\* message after the handlers of its first message completed
C5_Witness ==
    /\ Len(conns) = 2
    /\ At(1, "handler") /\ At(2, "handler")
    /\ conns[1].k = 2
    /\ Len(Events(conns[1], {"returned", "raised"})) >= 1

\* C18: when the bytes accumulated for a server connection exceed
\* max_message_size the server closes that connection and delivers nothing
\* from that buffer nor anything later (the oversize is the last thing that
\* happens on it, with the buffer left as it was); the other connections are
\* served on: they end only at the end of their stream, with every message
\* their peer wrote (each with a body, those that parse) delivered in its
\* order.
C18_OversizeClosesThatConnection ==
    \A c \in DOMAIN conns :
        conns[c].side = "server" =>
            LET delivered == Events(conns[c], {"deliver"})
                wrote == SelectSeq(conns[c].written,
                                   LAMBDA w : parse_sip_message(w).kind # "SIPParseError")
            IN  /\ \A p \in DOMAIN conns[c].log :
                      conns[c].log[p][1] = "oversize" =>
                          /\ p = Len(conns[c].log)
                          /\ At(c, "done") /\ conns[c].writer = "closed"
                          /\ Len(conns[c].buffer) > max_message_size
                          /\ conns[c].pos = conns[c].log[p][3]
                /\ Events(conns[c], {"oversize"}) = <<>> =>
                      /\ At(c, "done") => conns[c].pos = Len(conns[c].stream)
                      /\ (/\ At(c, "done")
                          /\ \A j \in DOMAIN conns[c].msgs : conns[c].msgs[j].body # <<>>) =>
                             [d \in DOMAIN delivered |-> delivered[d][3]]
                                 = [j \in DOMAIN wrote |-> parse_sip_message(wrote[j])]

\* the first of two connections was closed for oversize with nothing
\* delivered, and a handler is running for a message of the second
C18_Witness ==
    /\ Len(conns) = 2 /\ max_message_size = SmallMaxMessageSize
    /\ At(1, "done") /\ Events(conns[1], {"oversize"}) # <<>>
    /\ Events(conns[1], {"deliver"}) = <<>>
    /\ At(2, "handler")

\* C32: a server connection is closed for oversize only when one message is
\* larger than max_message_size: when every message its peer wrote is
\* complete (it has a body) and no larger than max_message_size, whatever the
\* sizes of the reads, the connection is never closed for oversize, its task
\* ends only at the end of the stream and has then delivered every message.
C32_OversizeOnlyForOneMessage ==
    \A c \in DOMAIN conns :
        (/\ conns[c].side = "server"
         /\ \A j \in DOMAIN conns[c].msgs :
               /\ conns[c].msgs[j].body # <<>>
               /\ parse_sip_message(conns[c].written[j]).kind # "SIPParseError"
               /\ Len(conns[c].written[j]) <= max_message_size) =>
            /\ Events(conns[c], {"oversize"}) = <<>>
            /\ At(c, "done") =>
                  /\ conns[c].pos = Len(conns[c].stream)
                  /\ Len(Events(conns[c], {"deliver"})) = Len(conns[c].msgs)

\* C19: when the bytes accumulated by a client exceed max_message_size the
\* client empties its buffer and stays connected (its loop ends only at the
\* end of the stream), and every complete message received after that (all
\* its bytes read after the last such reset) is delivered by the time the
\* stream has ended.
C19_ClientResetsAndGoesOn ==
    \A c \in DOMAIN conns :
        (conns[c].side = "client" /\ Events(conns[c], {"oversize"}) # <<>>) =>
            LET resets == Events(conns[c], {"oversize"})
                delivered == Events(conns[c], {"deliver"})
                offset(j) == Len(Flatten(SubSeq(conns[c].written, 1, j - 1)))
            IN  /\ Len(conns[c].buffer) <= max_message_size
                /\ At(c, "done") => conns[c].pos = Len(conns[c].stream)
                /\ ~At(c, "done") => transport.connection /\ conns[c].writer = "open"
                /\ At(c, "done") =>
                      \A j \in DOMAIN conns[c].msgs :
                          offset(j) >= resets[Len(resets)][3] =>
                              \E d \in DOMAIN delivered :
                                  delivered[d][3] = parse_sip_message(conns[c].written[j])

EchoInit ==
    /\ max_message_size = MAX_MESSAGE_SIZE
    /\ \E sizes \in {{ChunkSize}, {READ_SIZE}} :
          conns = <<[Connection("server", <<>>, FALSE, sizes) EXCEPT !.peer = 2],
                    [Connection("client", <<>>, FALSE, sizes) EXCEPT !.peer = 1]>>
    /\ handlers = [server |-> << <<1, "echo">> >>, client |-> << <<1, "returns">> >>]
    /\ transport = Started(conns)
    /\ \E headers \in {<<>>, <<SipText.Via>>}, body \in {<<>>, SipText.hi},
          reply \in {<<>>, SipText.OK} :
          app = [pc |-> "send", register |-> 0, reply |-> reply,
                 request |-> SIPRequest_build(SipText.REGISTER, SipText.URI,
                                              headers, body)]
    /\ input = <<>> /\ wire = <<>> /\ result = <<>> /\ step = "parked"

\* the handlers of the connection's dispatcher were invoked with a message
\* that is a response with this status code
InvokedWithStatus(conn, status_code) ==
    \E p \in DOMAIN conn.log :
        /\ conn.log[p][1] = "deliver" /\ conn.log[p][4] # <<>>
        /\ conn.log[p][3].kind = "SIPResponse"
        /\ conn.log[p][3].status_code = status_code

\* await client.send(request): SIPClient.send, ClientTransport.send,
\* Connection.send, TCPClientTransport._send
AppSend ==
    /\ app.pc = "send" /\ transport.connection /\ transport.writer
    /\ conns' = Write(conns, 2, <<app.request>>)
    /\ app' = [app EXCEPT !.pc = "await"]
    /\ UNCHANGED <<max_message_size, handlers, transport, vars_fn>>

\* the 200 OK has come: the application calls client.disconnect(), and after
\* it server.stop().  stop cancels the read loops and waits for them
Stop(side) ==
    /\ \/ side = "client" /\ app.pc = "await" /\ InvokedWithStatus(conns[2], 200)
       \/ side = "server" /\ app.pc = "client_stopped"
    /\ conns' = [c \in DOMAIN conns |->
                    IF conns[c].side = side /\ ~At(c, "done")
                       /\ (side = "server" => c \in transport.client_tasks)
                       /\ (side = "client" => transport.reader_task)
                    THEN [conns[c] EXCEPT !.cancel = TRUE] ELSE conns[c]]
    /\ transport' = IF side = "server" THEN [transport EXCEPT !.server = FALSE]
                    ELSE transport
    /\ app' = [app EXCEPT !.pc = IF side = "client" THEN "client_stopping"
                                 ELSE "server_stopping"]
    /\ UNCHANGED <<max_message_size, handlers, vars_fn>>

\* as if the cancelled read loop of the client ran _shutdown like the one that
\* read EOF
CancelledShutsDown(c) ==
    /\ conns[c].cancel /\ (At(c, "read") \/ At(c, "handler"))
    /\ conns' = IF conns[c].side = "server" THEN Close(conns, c)
                ELSE [CloseWriter(conns, transport) EXCEPT ![c] = [@ EXCEPT !.pc = "done"]]
    /\ transport' = IF conns[c].side = "server"
                    THEN [transport EXCEPT !.client_tasks = @ \ {c}]
                    ELSE _shutdown(transport)
    /\ UNCHANGED <<max_message_size, handlers, app, vars_fn>>

\* CancelledError arrives where the cancelled task awaits: the server task
\* closes its writer (finally), the client task ends without _shutdown.  In a
\* task that has not run yet it is raised before the first statement: the
\* task ends outside its try, and nothing closes the writer
Cancelled(c) ==
    /\ conns[c].cancel /\ (At(c, "read") \/ At(c, "handler") \/ At(c, "created"))
    /\ conns' = IF conns[c].side = "server" /\ ~At(c, "created") THEN Close(conns, c)
                ELSE [conns EXCEPT ![c] = [@ EXCEPT !.pc = "done"]]
    /\ transport' = IF conns[c].side = "server"
                    THEN [transport EXCEPT !.client_tasks = @ \ {c}] ELSE transport
    /\ UNCHANGED <<max_message_size, handlers, app, vars_fn>>

\* the tasks stop waited for have ended: the client runs _shutdown(log=True),
\* the server clears its set of tasks; stop returns
Stopped(side) ==
    /\ \/ side = "client" /\ app.pc = "client_stopping"
       \/ side = "server" /\ app.pc = "server_stopping"
    /\ \A c \in DOMAIN conns : (conns[c].side = side /\ conns[c].cancel) => At(c, "done")
    /\ conns' = IF side = "client" /\ transport.writer THEN Close(conns, 2) ELSE conns
    /\ transport' = IF side = "client" THEN _shutdown(transport)
                    ELSE [transport EXCEPT !.client_tasks = {}]
    /\ app' = [app EXCEPT !.pc = IF side = "client" THEN "client_stopped"
                                 ELSE "stopped"]
    /\ UNCHANGED <<max_message_size, handlers, vars_fn>>

EchoNext ==
    \/ \E c \in DOMAIN conns : ReadChunk(c)
    \/ \E c \in DOMAIN conns : SplitMessage(c)
    \/ \E c \in DOMAIN conns : HandlerDone(c)
    \/ \E c \in DOMAIN conns : ReadEof(c)
    \/ \E c \in DOMAIN conns : Cancelled(c)
    \/ AppSend
    \/ \E side \in {"client", "server"} : Stop(side)
    \/ \E side \in {"client", "server"} : Stopped(side)

\* the event loop runs every task that can run
SpecEcho == EchoInit /\ [][EchoNext]_vars /\ WF_vars(EchoNext)

\* nothing can run any more: every read loop awaits bytes that have not been
\* written, on a connection that stays open, and no cancellation is pending
Idle ==
    \A c \in DOMAIN conns :
        /\ At(c, "read") /\ conns[c].pos = Len(conns[c].stream)
        /\ ~conns[c].eof /\ ~conns[c].cancel

\* C3: once the client has sent its body-less REGISTER, the server's handler is
\* eventually invoked with that REGISTER and the client's handler with the
\* 200 OK, that is, they have been when the application still awaits the
\* 200 OK and nothing can run any more; and when both sides have stopped no
\* connection task and no reader task remains.
C3_EchoCompletes ==
    /\ (app.pc = "await" /\ app.request.body = <<>> /\ Idle) =>
          /\ \E p \in DOMAIN conns[1].log :
                /\ conns[1].log[p][1] = "deliver" /\ conns[1].log[p][4] # <<>>
                /\ conns[1].log[p][3].kind = "SIPRequest"
                /\ conns[1].log[p][3].method = SipText.REGISTER
                /\ conns[1].log[p][3].uri = app.request.uri
          /\ InvokedWithStatus(conns[2], 200)
    /\ app.pc = "stopped" =>
          /\ \A c \in DOMAIN conns : At(c, "done")
          /\ ~transport.reader_task
          /\ transport.client_tasks = {}

(***************************************************************************)
(* SpecLifecycle: start, stop and send called on one TCPClientTransport;    *)
(* SpecServer: start, stop and add_transport called on one SIPServer and   *)
(* stop on its transports; both by tasks that the event loop interleaves   *)
(* at their awaits.  A call is a record:                                   *)
(* its operation op, where it stands (pc: the await it is suspended at,    *)
(* "returned" or "raised"), a number n (the reader task a stop captured,   *)
(* the transport a server call awaits), what the instance was like when    *)
(* the call began (at), whether a start began (overlapped) or ended        *)
(* (restarted) while it was running, and the tasks a stop gathers (tasks). *)
(* Peers connect to the first transport of the server; each has sent one   *)
(* request and may close.                                                  *)
(***************************************************************************)

\* the number of calls tried
MaxCalls == 3

\* the longest list of transports of the server
MaxTransports == 2

\* the most connections the first transport of the server accepts
MaxAccepts == 2

Called(op, pc, n, at) ==
    [op |-> op, pc |-> pc, n |-> n, at |-> at, overlapped |-> FALSE,
     restarted |-> FALSE, tasks |-> {}]

\* a client transport and a server of one TCP transport, constructed.
\* asyncio.Server.wait_closed() after close() returns at once (CPython up to
\* 3.11) or waits until every connection of the server is closed (from 3.12):
\* transport.suspends tells which
LifecycleInit ==
    /\ max_message_size = MAX_MESSAGE_SIZE
    /\ conns = <<>>
    /\ handlers = [server |-> <<>>, client |-> <<>>]
    /\ \E suspends \in BOOLEAN :
          /\ transport = [connection |-> FALSE, reader |-> FALSE, writer |-> FALSE,
                          reader_task |-> FALSE, sent |-> <<>>, running |-> FALSE,
                          transports |-> << [server |-> FALSE, listening |-> FALSE] >>,
                          client_tasks |-> {}, accepted |-> 0, suspends |-> suspends]
          /\ app = [calls |-> <<>>, quiet |-> FALSE,
                    last |-> [client |-> "", server |-> ""]]
    /\ input = <<>> /\ wire = <<>> /\ result = <<>> /\ step = "parked"

\* the calls of these operations that have begun and not ended
InFlight(ops) ==
    {j \in DOMAIN app.calls :
        app.calls[j].op \in ops /\ app.calls[j].pc \notin {"returned", "raised"}}

\* whether the client transport (side "client") or the server and its
\* transports (side "server") were never started or are stopped: no start or
\* stop is running, and the last one to end, if any, was a stop during which
\* no start ended
Settled(side) ==
    /\ InFlight(IF side = "client" THEN {"start", "stop"}
                ELSE {"server.start", "server.stop", "transport.stop"}) = {}
    /\ app.last[side] \in {"", "stop"}

\* await transport.start(): returns at once when connected, else awaits
\* asyncio.open_connection
ClientStart ==
    /\ Len(app.calls) < MaxCalls
    /\ app' = [app EXCEPT
          !.calls = Append([j \in DOMAIN @ |->
                               IF j \in InFlight({"stop"})
                               THEN [@[j] EXCEPT !.overlapped = TRUE] ELSE @[j]],
                           Called("start", IF transport.connection THEN "returned"
                                           ELSE "open_connection", 0, "")),
          !.quiet = FALSE,
          !.last = IF transport.connection THEN [@ EXCEPT !.client = "start"] ELSE @]
    /\ UNCHANGED <<max_message_size, conns, handlers, transport, vars_fn>>

\* open_connection returns to call j, which sets reader, writer, connection
\* and creates the reader task, or it raises OSError
Connected(j) ==
    /\ j \in InFlight({"start"})
    /\ \E ok \in BOOLEAN :
          /\ conns' = IF ok THEN Append(conns, Connection("client", <<>>, FALSE, {READ_SIZE}))
                      ELSE conns
          /\ transport' = IF ok THEN [transport EXCEPT !.connection = TRUE, !.reader = TRUE,
                                                       !.writer = TRUE, !.reader_task = TRUE]
                          ELSE transport
          /\ app' = [app EXCEPT
                !.calls = [i \in DOMAIN @ |->
                              IF i = j THEN [@[i] EXCEPT !.pc = IF ok THEN "returned"
                                                               ELSE "raised"]
                              ELSE IF i \in InFlight({"stop"})
                              THEN [@[i] EXCEPT !.restarted = TRUE] ELSE @[i]],
                !.last.client = "start"]
    /\ UNCHANGED <<max_message_size, handlers, vars_fn>>

\* TCPClientTransport.stop up to its first await: it returns when there is no
\* connection and no reader task, awaits the reader task it cancelled, or goes
\* on to _shutdown (awaiting a task that is done does not suspend)
stop_begins(t, task_done) ==
    IF ~t.connection /\ ~t.reader_task THEN "returned"
    ELSE IF t.reader_task /\ ~task_done THEN "reader_task" ELSE "_shutdown"

\* call j of stop runs _shutdown(log=True) from pc "_shutdown": nothing to do
\* and stop returns, or the references are cleared, the writer is closed and
\* stop awaits writer.wait_closed(); from pc "returned" or "raised" stop has ended
StopGoesOn(calls, j) ==
    /\ transport' = IF calls[j].pc = "_shutdown" THEN _shutdown(transport) ELSE transport
    /\ conns' = IF calls[j].pc = "_shutdown" THEN CloseWriter(conns, transport)
                ELSE [c \in DOMAIN conns |->
                         IF calls[j].pc = "reader_task" /\ c = calls[j].n
                         THEN [conns[c] EXCEPT !.cancel = TRUE] ELSE conns[c]]
    /\ \E pc \in {IF calls[j].pc # "_shutdown" THEN calls[j].pc
                  ELSE IF _shutdown(transport) = transport THEN "returned"
                  ELSE "wait_closed"} :
          app' = [app EXCEPT
              !.calls = [calls EXCEPT ![j].pc = pc],
              !.quiet = IF pc = "returned" /\ ~calls[j].overlapped THEN TRUE ELSE @,
              !.last = IF pc \in {"returned", "raised"} /\ ~calls[j].restarted
                       THEN [@ EXCEPT !.client = "stop"] ELSE @]

\* await transport.stop() begins
ClientStop ==
    /\ Len(app.calls) < MaxCalls
    /\ \E task \in {IF transport.reader_task THEN Current(conns) ELSE 0} :
       \E pc \in {stop_begins(transport, task # 0 /\ conns[task].pc = "done")} :
          StopGoesOn(Append(app.calls,
                            Called("stop", pc, task,
                                   IF Settled("client") THEN "settled" ELSE "")),
                     Len(app.calls) + 1)
    /\ UNCHANGED <<max_message_size, handlers, vars_fn>>

\* call j of stop resumes: the reader task it awaited has ended, or
\* wait_closed has returned
ClientStopResumes(j) ==
    /\ j \in InFlight({"stop"})
    /\ \/ /\ app.calls[j].pc = "reader_task" /\ conns[app.calls[j].n].pc = "done"
          /\ StopGoesOn([app.calls EXCEPT ![j].pc = "_shutdown"], j)
       \/ /\ app.calls[j].pc = "wait_closed"
          /\ StopGoesOn([app.calls EXCEPT ![j].pc = "returned"], j)
    /\ UNCHANGED <<max_message_size, handlers, vars_fn>>

\* the remote end closes connection c
RemoteClose(c) ==
    /\ ~conns[c].eof /\ conns[c].writer = "open"
    /\ conns' = [conns EXCEPT ![c] = [@ EXCEPT !.eof = TRUE]]
    /\ UNCHANGED <<max_message_size, handlers, transport, app, vars_fn>>

\* as if send wrote to the writer without looking at the connection
send_unguarded(t, data) == [raised |-> FALSE, sent |-> Append(t.sent, data)]

\* ClientTransport.send(data): the connection property raises RuntimeError
\* when there is no connection, TCPClientTransport._send raises it when there
\* is no writer, else the bytes are written
send(t, data) ==
    IF ~t.connection \/ ~t.writer THEN [raised |-> TRUE, sent |-> t.sent]
    ELSE [raised |-> FALSE, sent |-> Append(t.sent, data)]

\* await client.send(data) (SIPClient.send, ClientTransport.send), or
\* client.connection alone, which writes nothing
ClientSend ==
    /\ Len(app.calls) < MaxCalls
    /\ \E op \in {"send", "connection"} :
       \E r \in {send(transport, <<120>>)} :
          /\ transport' = [transport EXCEPT !.sent = IF op = "send" THEN r.sent ELSE @]
          /\ app' = [app EXCEPT !.calls =
                        Append(@, Called(op, IF r.raised THEN "raised" ELSE "returned", 0,
                                         IF transport.connection THEN "connected"
                                         ELSE "not connected"))]
    /\ UNCHANGED <<max_message_size, conns, handlers, vars_fn>>

\* the lifecycle state of the server
ServerState ==
    IF InFlight({"server.start"}) # {} THEN "Starting"
    ELSE IF InFlight({"server.stop"}) # {} THEN "Stopping"
    ELSE IF transport.running THEN "Running" ELSE "Idle"

\* await server.start(): returns when running, else awaits the start of its
\* first transport (one start or stop of the server at a time)
ServerStart ==
    /\ Len(app.calls) < MaxCalls
    /\ InFlight({"server.start", "server.stop"}) = {}
    /\ app' = [app EXCEPT
          !.calls = Append(@, Called("server.start",
                                     IF transport.running THEN "returned" ELSE "transport",
                                     1, ServerState)),
          !.last = IF transport.running THEN [@ EXCEPT !.server = "start"] ELSE @]
    /\ UNCHANGED <<max_message_size, conns, handlers, transport, vars_fn>>

\* TCPServerTransport.start of the transport call j awaits returns (it
\* listens) and the loop of SIPServer.start goes on to the next transport of
\* the list as it is now, or sets _running and returns; or
\* asyncio.start_server raises OSError (the port is taken, as it is when this
\* transport listens already) and SIPServer.start raises it
ServerTransportStarted(j) ==
    /\ j \in InFlight({"server.start"})
    /\ \E n \in {app.calls[j].n}, ok \in BOOLEAN :
          /\ ok => ~transport.transports[n].listening
          /\ transport' = IF ~ok THEN transport
                          ELSE [transport EXCEPT
                                   !.transports[n] = [server |-> TRUE, listening |-> TRUE],
                                   !.running = (n = Len(transport.transports)) \/ @]
          /\ app' = IF ~ok
                    THEN [app EXCEPT !.calls[j].pc = "raised", !.last.server = "start"]
                    ELSE IF n < Len(transport.transports)
                    THEN [app EXCEPT !.calls[j].n = n + 1]
                    ELSE [app EXCEPT !.calls[j].pc = "returned", !.last.server = "start"]
    /\ UNCHANGED <<max_message_size, conns, handlers, vars_fn>>

\* the task of _serve_client runs for the first time, up to its first await
\* (inside the try)
_serve_client(c) ==
    /\ At(c, "created") /\ ~conns[c].cancel
    /\ conns' = [conns EXCEPT ![c] = [@ EXCEPT !.pc = "read"]]
    /\ UNCHANGED <<max_message_size, handlers, transport, app, vars_fn>>

\* a peer connects to the listening transport k (the first): the event loop
\* accepts the connection and schedules _handle_client
Accept(k) ==
    /\ k = 1 /\ transport.transports[k].listening /\ transport.accepted = 0
    /\ Len(conns) < MaxAccepts
    /\ transport' = [transport EXCEPT !.accepted = 1]
    /\ UNCHANGED <<max_message_size, conns, handlers, app, vars_fn>>

\* TCPServerTransport._handle_client runs for the accepted connection: it
\* creates the task of _serve_client, which has not run yet, and adds it to
\* _client_tasks (the peer has sent one request)
_handle_client ==
    /\ transport.accepted = 1
    /\ conns' = Append(conns, [Connection("server",
                                          <<SIPRequest_build(SipText.INVITE, SipText.URI,
                                                             <<>>, SipText.BODY)>>,
                                          FALSE, {READ_SIZE})
                               EXCEPT !.pc = "created"])
    /\ transport' = [transport EXCEPT !.accepted = 0,
                                      !.client_tasks = @ \cup {Len(conns) + 1}]
    /\ UNCHANGED <<max_message_size, handlers, app, vars_fn>>

\* TCPServerTransport.stop of transport k up to its next await or its return,
\* from its beginning ("begin": every task of _client_tasks is cancelled and
\* the server, if any, closed), from the return of wait_closed ("wait_closed":
\* _server = None, then gather of the tasks _client_tasks holds now) or from
\* the return of gather ("gather": _client_tasks.clear()).  wait_closed
\* suspends when it waits for the connections and one is open; gather
\* suspends when it is given a task (the set holds no task that is done: the
\* done callback discards it)
TCPServerTransport_stop(k, from, t, cs) ==
    LET mine == IF k = 1 THEN t.client_tasks ELSE {}
        cancelled == IF from # "begin" THEN cs
                     ELSE [c \in DOMAIN cs |->
                              IF c \in mine THEN [cs[c] EXCEPT !.cancel = TRUE] ELSE cs[c]]
        closed == [t EXCEPT !.transports[k].listening = FALSE]
        open == /\ k = 1
                /\ \/ t.accepted > 0
                   \/ \E c \in DOMAIN cs : cs[c].side = "server" /\ cs[c].writer = "open"
        unset == [closed EXCEPT !.transports[k].server = FALSE]
    IN  IF from = "begin" /\ t.transports[k].server /\ t.suspends /\ open
        THEN [transport |-> closed, conns |-> cancelled, pc |-> "wait_closed",
              n |-> k, tasks |-> {}]
        ELSE IF from # "gather" /\ mine # {}
        THEN [transport |-> unset, conns |-> cancelled, pc |-> "gather", n |-> k,
              tasks |-> mine]
        ELSE [transport |-> [unset EXCEPT !.client_tasks = IF k = 1 THEN {} ELSE @],
              conns |-> cancelled, pc |-> "returned", n |-> k, tasks |-> {}]

\* SIPServer.stop from the k-th transport on: "for transport in
\* self._transports: await transport.stop()" up to the first stop that
\* suspends, else _running = False and the return
RECURSIVE SIPServer_stop(_, _, _)
SIPServer_stop(k, t, cs) ==
    IF k > Len(t.transports)
    THEN [transport |-> [t EXCEPT !.running = FALSE], conns |-> cs, pc |-> "returned",
          n |-> 0, tasks |-> {}]
    ELSE LET r == TCPServerTransport_stop(k, "begin", t, cs)
         IN  IF r.pc = "returned" THEN SIPServer_stop(k + 1, r.transport, r.conns) ELSE r

\* await server.stop(): returns when not running, else stops its transports in
\* order; or await transport.stop() called on the k-th transport itself
ServerStop ==
    /\ Len(app.calls) < MaxCalls
    /\ \/ /\ InFlight({"server.start", "server.stop"}) = {}
          /\ \E r \in {IF transport.running THEN SIPServer_stop(1, transport, conns)
                        ELSE [transport |-> transport, conns |-> conns, pc |-> "returned",
                              n |-> 0, tasks |-> {}]} :
                /\ transport' = r.transport
                /\ conns' = r.conns
                /\ app' = [app EXCEPT
                      !.calls = Append(@, [Called("server.stop", r.pc, r.n,
                                                  IF Settled("server") THEN "settled"
                                                  ELSE ServerState)
                                           EXCEPT !.tasks = r.tasks]),
                      !.last = IF transport.running /\ r.pc = "returned"
                               THEN [@ EXCEPT !.server = "stop"] ELSE @]
       \/ \E k \in DOMAIN transport.transports :
          \E r \in {TCPServerTransport_stop(k, "begin", transport, conns)} :
                /\ transport' = r.transport
                /\ conns' = r.conns
                /\ app' = [app EXCEPT !.calls =
                              Append(@, [Called("transport.stop", r.pc, k,
                                                IF Settled("server") THEN "settled"
                                                ELSE ServerState)
                                         EXCEPT !.tasks = r.tasks])]
    /\ UNCHANGED <<max_message_size, handlers, vars_fn>>

\* the stop of a transport that call j awaits resumes: wait_closed returns
\* (every connection of the server is closed) or gather returns (the tasks it
\* was given are done); when that stop returns, SIPServer.stop goes on to the
\* next transport, or clears _running and returns
ServerTransportStopped(j) ==
    /\ j \in InFlight({"server.stop", "transport.stop"})
    /\ \/ /\ app.calls[j].pc = "wait_closed"
          /\ transport.accepted = 0
          /\ \A c \in DOMAIN conns : conns[c].side = "server" => conns[c].writer = "closed"
       \/ /\ app.calls[j].pc = "gather"
          /\ \A c \in app.calls[j].tasks : conns[c].pc = "done"
    /\ \E stopped \in {TCPServerTransport_stop(app.calls[j].n, app.calls[j].pc,
                                                transport, conns)} :
       \E r \in {IF app.calls[j].op = "server.stop" /\ stopped.pc = "returned"
                 THEN SIPServer_stop(app.calls[j].n + 1, stopped.transport, stopped.conns)
                 ELSE stopped} :
          /\ transport' = r.transport
          /\ conns' = r.conns
          /\ app' = [app EXCEPT
                !.calls[j] = [@ EXCEPT !.pc = r.pc, !.tasks = r.tasks,
                                       !.n = IF r.pc = "returned" THEN @ ELSE r.n],
                !.last = IF app.calls[j].op = "server.stop" /\ r.pc = "returned"
                         THEN [@ EXCEPT !.server = "stop"] ELSE @]
    /\ UNCHANGED <<max_message_size, handlers, vars_fn>>

\* server.add_transport(transport) with a new transport: RuntimeError when
\* _running, else the transport is bound and appended
add_transport ==
    /\ Len(app.calls) < MaxCalls /\ Len(transport.transports) < MaxTransports
    /\ transport' = IF transport.running THEN transport
                    ELSE [transport EXCEPT !.transports =
                             Append(@, [server |-> FALSE, listening |-> FALSE])]
    /\ app' = [app EXCEPT !.calls =
                  Append(@, Called("add_transport",
                                   IF transport.running THEN "raised" ELSE "returned", 0,
                                   ServerState))]
    /\ UNCHANGED <<max_message_size, conns, handlers, vars_fn>>

LifecycleNext ==
    \/ ClientStart
    \/ \E j \in DOMAIN app.calls : Connected(j)
    \/ ClientStop
    \/ \E j \in DOMAIN app.calls : ClientStopResumes(j)
    \/ \E c \in DOMAIN conns : RemoteClose(c)
    \/ \E c \in DOMAIN conns : ReadEof(c)
    \/ \E c \in DOMAIN conns : Cancelled(c)
    \/ ClientSend

SpecLifecycle == LifecycleInit /\ [][LifecycleNext]_vars

ServerNext ==
    \/ ServerStart
    \/ \E j \in DOMAIN app.calls : ServerTransportStarted(j)
    \/ add_transport
    \/ \E k \in DOMAIN transport.transports : Accept(k)
    \/ _handle_client
    \/ \E c \in DOMAIN conns : _serve_client(c)
    \/ \E c \in DOMAIN conns : ReadChunk(c)
    \/ \E c \in DOMAIN conns : SplitMessage(c)
    \/ \E c \in DOMAIN conns : RemoteClose(c)
    \/ \E c \in DOMAIN conns : ReadEof(c)
    \/ \E c \in DOMAIN conns : Cancelled(c)
    \/ ServerStop
    \/ \E j \in DOMAIN app.calls : ServerTransportStopped(j)

\* the server: the event loop runs what is ready (a callback that was
\* scheduled, a task whose await is over or that was cancelled, a stop whose
\* await is over); peers and callers are not obliged to do anything
SpecServer ==
    /\ LifecycleInit /\ [][ServerNext]_vars
    /\ WF_vars(_handle_client)
    /\ WF_vars(\E c \in DOMAIN conns : _serve_client(c))
    /\ WF_vars(\E c \in DOMAIN conns : ReadChunk(c))
    /\ WF_vars(\E c \in DOMAIN conns : SplitMessage(c))
    /\ WF_vars(\E c \in DOMAIN conns : ReadEof(c))
    /\ WF_vars(\E c \in DOMAIN conns : Cancelled(c))
    /\ WF_vars(\E j \in DOMAIN app.calls : ServerTransportStopped(j))

\* C14: stop is idempotent on every transport and on SIPServer: a stop called
\* on an instance that was never started or is already stopped (so the second
\* of two consecutive stops too) returns without error, at once, and changes
\* no state of the transport, the server or the connections.
C14_StopIdempotent ==
    [][(/\ Len(app'.calls) > Len(app.calls)
        /\ app'.calls[Len(app'.calls)].op \in {"stop", "server.stop", "transport.stop"}
        /\ app'.calls[Len(app'.calls)].at = "settled") =>
           /\ app'.calls[Len(app'.calls)].pc = "returned"
           /\ transport' = transport /\ conns' = conns]_vars

\* C15: whenever a stop has returned on the client transport and no start
\* began after that stop was called, the transport is not connected:
\* is_connected is false, the reference to the reader task is cleared and the
\* writer is closed, under every interleaving of start, stop and remote close.
C15_StoppedIsDisconnected ==
    app.quiet =>
        /\ ~transport.connection /\ ~transport.reader_task /\ ~transport.writer
        /\ Current(conns) # 0 => conns[Current(conns)].writer = "closed"

\* C16: add_transport appends the transport only while the server is Idle; in
\* Starting, Running and Stopping it raises and leaves the list of transports
\* as it was.
C16_AddOnlyWhileIdle ==
    [][(/\ Len(app'.calls) > Len(app.calls)
        /\ app'.calls[Len(app'.calls)].op = "add_transport") =>
           IF ServerState = "Idle"
           THEN /\ app'.calls[Len(app'.calls)].pc = "returned"
                /\ Len(transport'.transports) = Len(transport.transports) + 1
           ELSE /\ app'.calls[Len(app'.calls)].pc = "raised"
                /\ transport'.transports = transport.transports]_vars

\* C17: send (and access to connection) while the client transport is not
\* connected raises, writes no bytes and leaves the transport and the
\* connections as they were.
C17_SendNeedsConnection ==
    [][(/\ Len(app'.calls) > Len(app.calls)
        /\ app'.calls[Len(app'.calls)].op \in {"send", "connection"}
        /\ ~transport.connection) =>
           /\ app'.calls[Len(app'.calls)].pc = "raised"
           /\ transport' = transport /\ conns' = conns]_vars

\* send raised on a transport that was connected and shut itself down when the
\* remote end closed
C17_Witness ==
    /\ Len(app.calls) = 2
    /\ app.calls[1].op = "start" /\ app.calls[1].pc = "returned"
    /\ app.calls[2].op = "send" /\ app.calls[2].at = "not connected"
    /\ app.calls[2].pc = "raised"
    /\ conns[1].eof /\ conns[1].pc = "done" /\ transport.sent = <<>>

\* C26: under every interleaving of start, stop, send and remote close on one
\* client transport, two overlapping starts included, the transport has at
\* most one open connection and at most one live read task at any time.
C26_OneConnectionOneReadTask ==
    /\ Cardinality({c \in DOMAIN conns :
                       conns[c].side = "client" /\ conns[c].writer = "open"}) <= 1
    /\ Cardinality({c \in DOMAIN conns :
                       conns[c].side = "client" /\ conns[c].pc # "done"}) <= 1

\* C27: once stop has returned on the TCP server transport (called on it or by
\* SIPServer.stop) and no start of the server was running then or began
\* since, its listener is closed, its set of connection tasks is empty, none
\* of its connection tasks is running and it delivers no further message,
\* also when a connection was accepted while stop was in progress.
C27_StoppedServerTransportIsQuiet ==
    [][LET StopReturned(calls) ==
               \E j \in DOMAIN calls :
                  /\ \/ calls[j].op = "transport.stop" /\ calls[j].n = 1
                     \/ calls[j].op = "server.stop" /\ calls[j].at = "Running"
                  /\ calls[j].pc = "returned" /\ calls[j].at # "Starting"
                  /\ \A i \in DOMAIN calls : i > j => calls[i].op # "server.start"
       IN  /\ StopReturned(app'.calls) =>
                /\ ~transport'.transports[1].listening
                /\ ~transport'.transports[1].server
                /\ transport'.client_tasks = {}
                /\ \A c \in DOMAIN conns' :
                      conns'[c].side = "server" => conns'[c].pc = "done"
           /\ StopReturned(app.calls) =>
                \A c \in DOMAIN conns : conns'[c].log = conns[c].log]_vars

\* C28: on a client transport the read loop that reads EOF runs _shutdown
\* (is_connected becomes false, the writer is closed), the read loop that stop
\* cancelled ends without touching the transport or a writer, no writer is
\* ever closed twice, and after one start, whatever the order of the remote
\* close and the stops of the connected transport, once such a stop has
\* returned or the loop has ended on EOF the transport is not connected and
\* its writer was closed exactly once.
C28_EofShutsDownCancelDoesNot ==
    [][/\ \A c \in DOMAIN conns :
             conns[c].side = "client" =>
                /\ conns'[c].closes <= 1
                /\ (At(c, "read") /\ ~conns[c].cancel /\ conns'[c].pc = "done") =>
                      /\ conns[c].eof
                      /\ ~transport'.connection /\ ~transport'.writer
                      /\ conns'[Current(conns)].writer = "closed"
                /\ (conns[c].cancel /\ ~At(c, "done") /\ conns'[c].pc = "done") =>
                      /\ transport' = transport
                      /\ \A d \in DOMAIN conns : conns'[d].closes = conns[d].closes
       /\ (/\ Len(conns') = 1 /\ conns'[1].side = "client"
           /\ \A j \in DOMAIN app'.calls : app'.calls[j].op = "start" => j = 1
           /\ \/ \E j \in DOMAIN app'.calls :
                    /\ app'.calls[j].op = "stop" /\ app'.calls[j].n = 1
                    /\ app'.calls[j].pc = "returned"
              \/ conns'[1].pc = "done" /\ ~conns'[1].cancel) =>
             /\ ~transport'.connection /\ ~transport'.reader_task
             /\ conns'[1].writer = "closed" /\ conns'[1].closes = 1]_vars

\* the remote end closed while stop awaited the read loop it had cancelled:
\* the loop ended by the cancellation, stop closed the writer, once
C28_Witness ==
    /\ Len(conns) = 1 /\ conns[1].side = "client"
    /\ conns[1].eof /\ conns[1].cancel /\ conns[1].pc = "done"
    /\ conns[1].closes = 1 /\ ~transport.connection
    /\ Len(app.calls) = 2 /\ app.calls[2].op = "stop" /\ app.calls[2].pc = "returned"
    /\ app.calls[2].n = 1

\* C29: stop on the TCP server transport returns in the end when the event
\* loop runs whatever is ready, whatever the peers do: when nothing is ready
\* (no callback is scheduled, every connection task is done or awaits bytes
\* of a silent peer with no cancellation pending, no stop can resume), no stop
\* of the transport or of the server is still suspended.
C29_StopReturns ==
    (/\ transport.accepted = 0
     /\ \A c \in DOMAIN conns :
           \/ At(c, "done")
           \/ /\ At(c, "read") /\ conns[c].pos = Len(conns[c].stream)
              /\ ~conns[c].eof /\ ~conns[c].cancel
     /\ \A j \in InFlight({"transport.stop", "server.stop"}) :
           /\ app.calls[j].pc = "wait_closed" =>
                 \E c \in DOMAIN conns :
                    conns[c].side = "server" /\ conns[c].writer = "open"
           /\ app.calls[j].pc = "gather" =>
                 \E c \in app.calls[j].tasks : ~At(c, "done"))
    => InFlight({"transport.stop", "server.stop"}) = {}

\* C30: when SIPServer.stop returns, no transport of the server is left
\* started, whatever starts, stops and failed starts came before.
C30_StopLeavesNothingStarted ==
    [][(\E j \in DOMAIN app.calls :
           /\ app.calls[j].op = "server.stop" /\ app.calls[j].pc # "returned"
           /\ app'.calls[j].pc = "returned")
       \/ (/\ Len(app'.calls) > Len(app.calls)
           /\ app'.calls[Len(app'.calls)].op = "server.stop"
           /\ app'.calls[Len(app'.calls)].pc = "returned")
       => \A k \in DOMAIN transport'.transports :
             /\ ~transport'.transports[k].server
             /\ ~transport'.transports[k].listening]_vars

\* C33: every connection task of the TCP server transport closes its writer
\* before it ends, whatever ends it (end of stream, oversize, cancellation by
\* stop): no connection whose task has ended has its writer open.
C33_EndedTaskClosedItsWriter ==
    \A c \in DOMAIN conns :
        (conns[c].side = "server" /\ At(c, "done")) => conns[c].writer = "closed"

====
